---- MODULE Spec2Model ----
(***************************************************************************)
(* Chirp: the relational store (app/database.py) and the request handlers  *)
(* of app/routes that read and write it.  Every table the handlers touch   *)
(* is a variable; every handler is one action that models the whole        *)
(* request, from the login check to the final commit.                      *)
(***************************************************************************)
EXTENDS Integers, Sequences, FiniteSets, TLC

VARIABLES
    users,                    \* users table: id -> row
    posts,                    \* posts table: id -> row
    likes,                    \* likes table: set of <<user_id, post_id>>
    bookmarks,                \* bookmarks table: set of <<user_id, post_id>>
    follows,                  \* follows table: set of <<follower_id, following_id>>
    blocks,                   \* blocks table: set of <<blocker_id, blocked_id>>
    mutes,                    \* mutes table: set of <<muter_id, muted_id>>
    notifications,            \* notifications table: id -> row
    community_notes,          \* community_notes table: id -> row
    community_note_ratings,   \* community_note_ratings table: set of rows
    hashtags,                 \* hashtags table: id -> row
    post_hashtags,            \* post_hashtags table: set of <<post_id, hashtag_id>>
    polls,                    \* polls table: id -> row
    poll_votes,               \* poll_votes table: id -> row
    conversations,            \* conversations table: id -> row
    conversation_members,     \* conversation_members table: set of <<conversation_id, user_id>>
    messages,                 \* messages table: id -> row
    site_settings,            \* site_settings table: key -> value
    inflight,                 \* requests between their first statement and their last
    twins,                    \* <<table, key>> of the toggle keys stored in two rows
    seq,                      \* sqlite_sequence: last AUTOINCREMENT id per table
    now,                      \* CURRENT_TIMESTAMP, in seconds
    resp                      \* the response of the latest request

socialVars == <<follows, blocks, mutes>>
reactVars  == <<likes, bookmarks>>
noteVars   == <<community_notes, community_note_ratings>>
tagVars    == <<hashtags, post_hashtags>>
pollVars   == <<polls, poll_votes>>
msgVars    == <<conversations, conversation_members, messages>>
vars == <<users, posts, likes, bookmarks, follows, blocks, mutes, notifications,
          community_notes, community_note_ratings, hashtags, post_hashtags,
          polls, poll_votes, conversations, conversation_members, messages,
          site_settings, inflight, twins, seq, now, resp>>

-----------------------------------------------------------------------------
(* Bounds of the model *)

MaxPosts  == 2     \* rows ever inserted into posts
MaxNotifs == 2     \* rows ever inserted into notifications
MaxNotes  == 1     \* rows ever inserted into community_notes
MaxTags   == 2     \* rows ever inserted into hashtags
MaxConns  == 2     \* requests in flight at the same time
MaxRows   == 3     \* rows ever inserted into posts where reposts run concurrently
MaxNow    == 1     \* seconds the clock advances
MaxMsgs   == 2     \* rows ever inserted into messages
MaxUsers  == 2     \* rows ever inserted into users

UserIds == 1 .. 4            \* ids a request may name as its target
Anon    == 0                 \* a request without a logged-in user (g.user is None)
NULL    == -1                \* SQL NULL

-----------------------------------------------------------------------------
(* Rows *)

UserRow(name, admin) ==
    [username |-> name, is_admin |-> admin, is_moderator |-> FALSE,
     is_private |-> FALSE, is_suspended |-> FALSE]

PostRow(u, c, parent, rp, q) ==
    [user_id |-> u, content |-> c, parent_id |-> parent, repost_id |-> rp,
     quote_id |-> q, is_pinned |-> FALSE, is_deleted |-> FALSE, created_at |-> now]

NotificationRow(to, actor, type, post) ==
    [user_id |-> to, actor_id |-> actor, type |-> type, post_id |-> post,
     is_read |-> FALSE]

NoteRow(post, author) ==
    [post_id |-> post, author_id |-> author, status |-> "proposed",
     helpful_count |-> 0, not_helpful_count |-> 0]

(* the usernames of the accounts the model registers *)
Usernames == <<"alice", "bob", "carol", "dave">>

InitUsers(n) == [u \in 1 .. n |-> UserRow(Usernames[u], u = 1)]

(* f with the row at key k added or replaced; f without the keys in S *)
Put(f, k, row) == [x \in DOMAIN f \cup {k} |-> IF x = k THEN row ELSE f[x]]
Drop(f, S) == [x \in DOMAIN f \ S |-> f[x]]

-----------------------------------------------------------------------------
(* The request context *)

(* g.user: the session's user row, present and not suspended *)
LoggedIn(u) == u \in DOMAIN users /\ ~users[u].is_suspended

Actors == DOMAIN users \cup {Anon}

(* a response without a JSON body *)
NoBody == [none |-> TRUE]

Respond(op, code, flash) ==
    resp' = [op |-> op, code |-> code, flash |-> flash, body |-> NoBody]

(* jsonify(body), status code *)
RespondJson(op, code, body) ==
    resp' = [op |-> op, code |-> code, flash |-> "", body |-> body]

-----------------------------------------------------------------------------
(* Follow / block / mute: app/routes/auth.py *)

(* the block lookup of follow: a block row in either direction *)
blocked(u, user_id) == <<u, user_id>> \in blocks \/ <<user_id, u>> \in blocks

follow(u, user_id) ==
    IF ~LoggedIn(u) THEN
        /\ Respond("follow", 302, "")
        /\ UNCHANGED <<follows, notifications, seq>>
    ELSE IF u = user_id THEN
        /\ Respond("follow", 400, "")
        /\ UNCHANGED <<follows, notifications, seq>>
    ELSE IF user_id \notin DOMAIN users THEN
        /\ Respond("follow", 404, "")
        /\ UNCHANGED <<follows, notifications, seq>>
    ELSE IF blocked(u, user_id) THEN
        /\ Respond("follow", 302, "Unable to follow this user.")
        /\ UNCHANGED <<follows, notifications, seq>>
    ELSE IF <<u, user_id>> \in follows THEN
        /\ follows' = follows \ {<<u, user_id>>}
        /\ Respond("follow", 302, "Unfollowed")
        /\ UNCHANGED <<notifications, seq>>
    ELSE
        /\ seq.notifications < MaxNotifs
        /\ follows' = follows \cup {<<u, user_id>>}
        /\ seq' = [seq EXCEPT !.notifications = @ + 1]
        /\ notifications' = Put(notifications, seq.notifications + 1,
                                NotificationRow(user_id, u, "follow", NULL))
        /\ Respond("follow", 302, "Following")

Follow(u, user_id) ==
    /\ follow(u, user_id)
    /\ UNCHANGED <<msgVars, site_settings, users, tagVars, pollVars, inflight, twins,
                 posts, reactVars, blocks, mutes, noteVars, now>>

(* a block that removes only the blocker's own follow *)
follows_between_own(u, user_id) == {<<u, user_id>>}

(* the follows a new block removes: both directions *)
follows_between(u, user_id) == {<<u, user_id>>, <<user_id, u>>}

block_user(u, user_id) ==
    IF ~LoggedIn(u) \/ u = user_id THEN
        /\ Respond("block_user", 400, "")
        /\ UNCHANGED <<blocks, follows>>
    ELSE IF <<u, user_id>> \in blocks THEN
        /\ blocks' = blocks \ {<<u, user_id>>}
        /\ Respond("block_user", 302, "")
        /\ UNCHANGED follows
    ELSE IF user_id \notin DOMAIN users THEN
        \* the INSERT breaks blocks.blocked_id REFERENCES users(id): nothing commits
        /\ Respond("block_user", 500, "")
        /\ UNCHANGED <<blocks, follows>>
    ELSE
        /\ blocks' = blocks \cup {<<u, user_id>>}
        /\ follows' = follows \ follows_between(u, user_id)
        /\ Respond("block_user", 302, "")

BlockUser(u, user_id) ==
    /\ block_user(u, user_id)
    /\ UNCHANGED <<msgVars, site_settings, users, tagVars, pollVars, inflight, twins,
                 posts, reactVars, mutes, notifications, noteVars, seq, now>>

mute_user(u, user_id) ==
    IF ~LoggedIn(u) \/ u = user_id THEN
        /\ Respond("mute_user", 400, "")
        /\ UNCHANGED mutes
    ELSE IF <<u, user_id>> \in mutes THEN
        /\ mutes' = mutes \ {<<u, user_id>>}
        /\ Respond("mute_user", 302, "")
    ELSE IF user_id \notin DOMAIN users THEN
        \* the INSERT breaks mutes.muted_id REFERENCES users(id): nothing commits
        /\ Respond("mute_user", 500, "")
        /\ UNCHANGED mutes
    ELSE
        /\ mutes' = mutes \cup {<<u, user_id>>}
        /\ Respond("mute_user", 302, "")

MuteUser(u, user_id) ==
    /\ mute_user(u, user_id)
    /\ UNCHANGED <<msgVars, site_settings, users, tagVars, pollVars, inflight, twins,
                 posts, reactVars, follows, blocks, notifications,
                   noteVars, seq, now>>

-----------------------------------------------------------------------------
(* Post content.  A content is a sequence of tokens <<sigil, word>>: a     *)
(* plain word <<"w", _>>, a mention <<"@", _>> or a hashtag <<"#", _>>.     *)

Word(w)    == <<"w", w>>
Mention(w) == <<"@", w>>
Hashtag(w) == <<"#", w>>

Range(s) == {s[i] : i \in DOMAIN s}

(* the orders in which a loop may run over the unordered set S *)
Orderings(S) ==
    {s \in [1 .. Cardinality(S) -> S] : \A i, j \in DOMAIN s : s[i] = s[j] => i = j}

(* lower(): the letters the model's handles are written with *)
Lower(w) ==
    CASE w = "Alice" -> "alice"
      [] w = "Bob"   -> "bob"
      [] w = "BOB"   -> "bob"
      [] w = "Carol" -> "carol"
      [] w = "Intro" -> "intro"
      [] OTHER       -> w

(* SELECT id FROM users WHERE username = ?  (username is COLLATE NOCASE) *)
user_by_username(name) ==
    {x \in DOMAIN users : Lower(users[x].username) = Lower(name)}

(* re.findall(r'@(\w+)', content) put in a set: exact strings are merged *)
extract_mentions(content) ==
    {content[i][2] : i \in {j \in DOMAIN content : content[j][1] = "@"}}

(* the mention loop of compose and reply: one notification per extracted   *)
(* handle that resolves to a user other than the author                    *)
RECURSIVE notify_mentions(_, _, _, _)
notify_mentions(ns, order, u, post_id) ==
    IF order = << >> THEN ns
    ELSE LET mentioned_user == user_by_username(Head(order))
             next == seq.notifications + Cardinality(DOMAIN ns \ DOMAIN notifications) + 1
         IN  IF mentioned_user # {} /\ mentioned_user # {u}
             THEN notify_mentions(
                      Put(ns, next, NotificationRow(CHOOSE x \in mentioned_user : TRUE,
                                                    u, "mention", post_id)),
                      Tail(order), u, post_id)
             ELSE notify_mentions(ns, Tail(order), u, post_id)

(* the notifications table after inserting the rows `ns` holds beyond it *)
Inserted(ns) == Cardinality(DOMAIN ns \ DOMAIN notifications)

(* re.findall(r'#(\w+)', content) put in a set: exact strings are merged *)
extract_hashtags(content) ==
    {content[i][2] : i \in {j \in DOMAIN content : content[j][1] = "#"}}

(* SELECT id FROM hashtags WHERE tag = ?  (tag is COLLATE NOCASE) over h *)
hashtag_by_tag(h, tag) == {x \in DOMAIN h : Lower(h[x].tag) = Lower(tag)}

(* the hashtag loop of compose over the tables t = [h, ph]: per extracted   *)
(* string, INSERT OR IGNORE the tag, INSERT OR IGNORE the link of the post  *)
(* to it, and add one to its post_count                                     *)
RECURSIVE process_hashtags(_, _, _)
process_hashtags(t, order, post_id) ==
    IF order = << >> THEN t
    ELSE LET tag == Head(order)
             h1  == IF hashtag_by_tag(t.h, tag) = {}
                    THEN Put(t.h, seq.hashtags
                                    + Cardinality(DOMAIN t.h \ DOMAIN hashtags) + 1,
                             [tag |-> tag, post_count |-> 0])
                    ELSE t.h
             id  == CHOOSE x \in hashtag_by_tag(h1, tag) : TRUE
         IN  process_hashtags(
                 [h  |-> [h1 EXCEPT ![id].post_count = @ + 1],
                  ph |-> t.ph \cup {<<post_id, id>>}],
                 Tail(order), post_id)

-----------------------------------------------------------------------------
(* Create and delete posts: app/routes/posts.py *)

(* POST /compose without media, poll options or quote_id *)
compose(u, content) ==
    IF ~LoggedIn(u) THEN
        /\ Respond("compose", 302, "")
        /\ UNCHANGED <<posts, notifications, tagVars, seq>>
    ELSE IF content = << >> THEN
        /\ Respond("compose", 200, "Post must be 1-500 characters.")
        /\ UNCHANGED <<posts, notifications, tagVars, seq>>
    ELSE
        /\ seq.posts < MaxPosts
        /\ LET post_id == seq.posts + 1 IN
           \E order \in Orderings(extract_mentions(content)),
              tags \in Orderings(extract_hashtags(content)) :
              LET ns == notify_mentions(notifications, order, u, post_id)
                  t  == process_hashtags([h |-> hashtags, ph |-> post_hashtags],
                                         tags, post_id)
                  newTags == Cardinality(DOMAIN t.h \ DOMAIN hashtags)
              IN
              /\ seq.notifications + Inserted(ns) <= MaxNotifs
              /\ seq.hashtags + newTags <= MaxTags
              /\ posts' = Put(posts, post_id, PostRow(u, content, NULL, NULL, NULL))
              /\ hashtags' = t.h
              /\ post_hashtags' = t.ph
              /\ notifications' = ns
              /\ seq' = [seq EXCEPT !.posts = post_id,
                                    !.hashtags = @ + newTags,
                                    !.notifications = @ + Inserted(ns)]
        /\ Respond("compose", 302, "Chirp posted!")

Compose(u, content) ==
    /\ compose(u, content)
    /\ UNCHANGED <<msgVars, site_settings, users, pollVars, inflight, twins, reactVars, socialVars, noteVars, now>>

delete_post(u, post_id) ==
    IF ~LoggedIn(u) THEN
        /\ Respond("delete_post", 302, "")
        /\ UNCHANGED posts
    ELSE IF post_id \notin DOMAIN posts THEN
        /\ Respond("delete_post", 404, "")
        /\ UNCHANGED posts
    ELSE IF posts[post_id].user_id # u /\ ~users[u].is_admin THEN
        /\ Respond("delete_post", 403, "")
        /\ UNCHANGED posts
    ELSE
        /\ posts' = [posts EXCEPT ![post_id].is_deleted = TRUE]
        /\ Respond("delete_post", 302, "Post deleted.")

DeletePost(u, post_id) ==
    /\ delete_post(u, post_id)
    /\ UNCHANGED <<msgVars, site_settings, users, tagVars, pollVars, inflight, twins,
                 reactVars, socialVars, notifications, noteVars, seq, now>>

-----------------------------------------------------------------------------
(* Timelines: app/routes/feed.py, app/routes/api.py, app/routes/auth.py.   *)
(* A query with ORDER BY returns one of the row orders its sort keys allow, *)
(* so a timeline is the set of id sequences the query may return.          *)

(* LIMIT ? OFFSET ? as SQLite applies them: a negative LIMIT is no limit,  *)
(* a negative OFFSET is 0                                                   *)
LimitOffset(s, limit, offset) ==
    LET from == IF offset < 0 THEN 1 ELSE offset + 1
        to   == IF limit < 0 THEN Len(s)
                ELSE IF from + limit - 1 > Len(s) THEN Len(s) ELSE from + limit - 1
    IN  SubSeq(s, from, to)

(* the greatest and the least timestamp of T *)
Latest(T) ==
    LET N == {0 - t : t \in T} IN 0 - (CHOOSE m \in N : \A x \in N : m <= x)

Earliest(T) == CHOOSE m \in T : \A x \in T : m <= x

(* ORDER BY p.created_at DESC: the rows of S newest first, the rows of one  *)
(* second in any order.  The rows newer than the middle of the time span    *)
(* come before the others, each part ordered the same way.                  *)
RECURSIVE OrderByCreatedDesc(_)
OrderByCreatedDesc(S) ==
    IF S = {} THEN {<< >>}
    ELSE LET T  == {posts[q].created_at : q \in S}
             lo == Earliest(T)
             hi == Latest(T)
         IN  IF lo = hi THEN Orderings(S)
             ELSE LET mid == (lo + hi) \div 2 IN
                  {a \o b : a \in OrderByCreatedDesc({p \in S : posts[p].created_at > mid}),
                            b \in OrderByCreatedDesc({p \in S : posts[p].created_at <= mid})}

(* ORDER BY p.is_pinned DESC, p.created_at DESC *)
OrderByPinnedCreatedDesc(S) ==
    {s \in Orderings(S) :
        \A i, j \in DOMAIN s : i < j =>
            \/ posts[s[i]].is_pinned /\ ~posts[s[j]].is_pinned
            \/ /\ posts[s[i]].is_pinned = posts[s[j]].is_pinned
               /\ posts[s[i]].created_at >= posts[s[j]].created_at}

(* the WHERE clause of get_feed_posts *)
feed_rows(v) ==
    {p \in DOMAIN posts :
        /\ ~posts[p].is_deleted
        /\ <<v, posts[p].user_id>> \notin mutes
        /\ <<v, posts[p].user_id>> \notin blocks
        /\ (posts[p].user_id = v \/ <<v, posts[p].user_id>> \in follows)}

PerPageDefault == 20
PerPageCap     == 100
ProfileLimit   == 50

get_feed_posts(v, page, per_page) ==
    {LimitOffset(s, per_page, (page - 1) * per_page) : s \in OrderByCreatedDesc(feed_rows(v))}

(* GET /home?page= *)
home(v, page) == get_feed_posts(v, page, PerPageDefault)

(* the WHERE clause of GET /api/v1/timeline *)
timeline_rows(v) ==
    {p \in DOMAIN posts :
        /\ ~posts[p].is_deleted
        /\ (posts[p].user_id = v \/ <<v, posts[p].user_id>> \in follows)}

(* GET /api/v1/timeline?page=&per_page= *)
timeline(v, page, per_page) ==
    LET pp == IF per_page < PerPageCap THEN per_page ELSE PerPageCap IN
    {LimitOffset(s, pp, (page - 1) * pp) : s \in OrderByCreatedDesc(timeline_rows(v))}

(* the WHERE clause of the post list of GET /user/<username> *)
profile_rows(subject) ==
    {p \in DOMAIN posts : posts[p].user_id = subject /\ ~posts[p].is_deleted}

(* GET /user/<username>: the post lists the page may show to `viewer`;     *)
(* none (404) when the username resolves to no user                        *)
profile(username, viewer) ==
    UNION {{LimitOffset(s, ProfileLimit, 0) : s \in OrderByPinnedCreatedDesc(profile_rows(subject))}
           : subject \in user_by_username(username)}

-----------------------------------------------------------------------------
(* Community notes: app/routes/posts.py, app/routes/admin.py *)

(* POST /post/<post_id>/community-note; `sources` are the non-empty        *)
(* source fields of the form                                               *)
add_community_note(u, post_id, content, sources) ==
    IF ~LoggedIn(u) THEN
        /\ Respond("add_community_note", 302, "")
        /\ UNCHANGED <<community_notes, seq>>
    ELSE IF post_id \notin DOMAIN posts \/ posts[post_id].is_deleted THEN
        /\ Respond("add_community_note", 404, "")
        /\ UNCHANGED <<community_notes, seq>>
    ELSE IF content = "" THEN
        /\ Respond("add_community_note", 302, "Note content is required.")
        /\ UNCHANGED <<community_notes, seq>>
    ELSE IF sources = << >> THEN
        /\ Respond("add_community_note", 302, "At least one source link is required.")
        /\ UNCHANGED <<community_notes, seq>>
    ELSE
        /\ seq.community_notes < MaxNotes
        /\ community_notes' = Put(community_notes, seq.community_notes + 1,
                                  NoteRow(post_id, u))
        /\ seq' = [seq EXCEPT !.community_notes = @ + 1]
        /\ Respond("add_community_note", 302, "Community note submitted for review.")

AddCommunityNote(u, post_id, content, sources) ==
    /\ add_community_note(u, post_id, content, sources)
    /\ UNCHANGED <<msgVars, site_settings, users, tagVars, pollVars, inflight, twins,
                 posts, reactVars, socialVars, notifications,
                   community_note_ratings, now>>

(* the upsert of rate_community_note: the rating rows after the request *)
upsert_rating(rows, note_id, u, rating) ==
    LET existing == {r \in rows : r.note_id = note_id /\ r.user_id = u} IN
    IF existing # {}
    THEN IF (CHOOSE r \in existing : TRUE).rating # rating
         THEN (rows \ existing) \cup {[note_id |-> note_id, user_id |-> u, rating |-> rating]}
         ELSE rows
    ELSE rows \cup {[note_id |-> note_id, user_id |-> u, rating |-> rating]}

(* SELECT COUNT( * ) FROM community_note_ratings WHERE note_id = ? AND rating = ? *)
count_ratings(rows, note_id, rating) ==
    Cardinality({r \in rows : r.note_id = note_id /\ r.rating = rating})

ApproveAt == 3

(* an auto-approval that needs more than 3 helpful ratings *)
auto_status_late(status, helpful) == IF helpful > ApproveAt THEN "approved" ELSE status

(* the status the auto-approval step leaves: approved at 3 helpful ratings *)
auto_status(status, helpful) == IF helpful >= ApproveAt THEN "approved" ELSE status

rate_community_note(u, note_id, rating) ==
    IF ~LoggedIn(u) THEN
        /\ Respond("rate_community_note", 302, "")
        /\ UNCHANGED noteVars
    ELSE IF note_id \notin DOMAIN community_notes THEN
        /\ Respond("rate_community_note", 404, "")
        /\ UNCHANGED noteVars
    ELSE IF rating \notin {"helpful", "not_helpful"} THEN
        /\ Respond("rate_community_note", 400, "")
        /\ UNCHANGED noteVars
    ELSE
        LET rows        == upsert_rating(community_note_ratings, note_id, u, rating)
            helpful     == count_ratings(rows, note_id, "helpful")
            not_helpful == count_ratings(rows, note_id, "not_helpful")
        IN  /\ community_note_ratings' = rows
            /\ community_notes' =
                 [community_notes EXCEPT
                     ![note_id].helpful_count = helpful,
                     ![note_id].not_helpful_count = not_helpful,
                     ![note_id].status = auto_status(@, helpful)]
            /\ Respond("rate_community_note", 302, "")

RateCommunityNote(u, note_id, rating) ==
    /\ rate_community_note(u, note_id, rating)
    /\ UNCHANGED <<msgVars, site_settings, users, tagVars, pollVars, inflight, twins,
                 posts, reactVars, socialVars, notifications, seq, now>>

(* admin_required *)
Staff(u) == users[u].is_admin \/ users[u].is_moderator

(* POST /admin/community-notes/<note_id>/action; the audit_log row it      *)
(* appends is read by no handler of the model and is left out              *)
community_note_action(u, note_id, action) ==
    IF ~LoggedIn(u) THEN
        /\ Respond("community_note_action", 302, "")
        /\ UNCHANGED noteVars
    ELSE IF ~Staff(u) THEN
        /\ Respond("community_note_action", 403, "")
        /\ UNCHANGED noteVars
    ELSE
        /\ Respond("community_note_action", 302, "Community note updated.")
        /\ IF note_id \notin DOMAIN community_notes THEN UNCHANGED noteVars
           ELSE IF action = "approve" THEN
               /\ community_notes' = [community_notes EXCEPT ![note_id].status = "approved"]
               /\ UNCHANGED community_note_ratings
           ELSE IF action = "reject" THEN
               /\ community_notes' = [community_notes EXCEPT ![note_id].status = "rejected"]
               /\ UNCHANGED community_note_ratings
           ELSE IF action = "delete" THEN
               /\ community_notes' = Drop(community_notes, {note_id})
               /\ community_note_ratings' =
                    {r \in community_note_ratings : r.note_id # note_id}
           ELSE UNCHANGED noteVars

CommunityNoteAction(u, note_id, action) ==
    /\ community_note_action(u, note_id, action)
    /\ UNCHANGED <<msgVars, site_settings, users, tagVars, pollVars, inflight, twins,
                 posts, reactVars, socialVars, notifications, seq, now>>

-----------------------------------------------------------------------------
(* DELETE FROM users WHERE id = x, with the ON DELETE clauses of            *)
(* app/database.py                                                          *)

NullIf(v, S) == IF v \in S THEN NULL ELSE v

(* the rating rows that survive the deletion of user x, whose notes         *)
(* goneNotes go with it: community_note_ratings cascades on note and user   *)
ratings_after_delete(x, goneNotes) ==
    {r \in community_note_ratings : r.user_id # x /\ r.note_id \notin goneNotes}

delete_user_cascade(x) ==
    LET gonePosts == {p \in DOMAIN posts : posts[p].user_id = x}
        goneNotes == {n \in DOMAIN community_notes :
                         \/ community_notes[n].author_id = x
                         \/ community_notes[n].post_id \in gonePosts}
        goneNotifs == {n \in DOMAIN notifications :
                         \/ notifications[n].user_id = x
                         \/ notifications[n].post_id \in gonePosts}
        gonePolls == {k \in DOMAIN polls : polls[k].post_id \in gonePosts}
    IN  /\ users' = Drop(users, {x})
        /\ posts' = [p \in DOMAIN posts \ gonePosts |->
                        [posts[p] EXCEPT !.parent_id = NullIf(@, gonePosts),
                                         !.repost_id = NullIf(@, gonePosts),
                                         !.quote_id  = NullIf(@, gonePosts)]]
        /\ likes' = {l \in likes : l[1] # x /\ l[2] \notin gonePosts}
        /\ bookmarks' = {b \in bookmarks : b[1] # x /\ b[2] \notin gonePosts}
        /\ follows' = {e \in follows : e[1] # x /\ e[2] # x}
        /\ blocks' = {e \in blocks : e[1] # x /\ e[2] # x}
        /\ mutes' = {e \in mutes : e[1] # x /\ e[2] # x}
        /\ notifications' = [n \in DOMAIN notifications \ goneNotifs |->
                                [notifications[n] EXCEPT !.actor_id = NullIf(@, {x})]]
        /\ community_notes' = Drop(community_notes, goneNotes)
        /\ community_note_ratings' = ratings_after_delete(x, goneNotes)
        /\ post_hashtags' = {ph \in post_hashtags : ph[1] \notin gonePosts}
        /\ polls' = Drop(polls, gonePolls)
        /\ poll_votes' = Drop(poll_votes,
                              {v \in DOMAIN poll_votes :
                                  \/ poll_votes[v].user_id = x
                                  \/ poll_votes[v].poll_id \in gonePolls})
        /\ conversation_members' = {m \in conversation_members : m[2] # x}
        /\ messages' = Drop(messages, {m \in DOMAIN messages : messages[m].sender_id = x})
        /\ UNCHANGED <<hashtags, conversations, site_settings>>

dbTables == <<users, posts, likes, bookmarks, follows, blocks, mutes, notifications,
              community_notes, community_note_ratings, hashtags, post_hashtags,
              polls, poll_votes, conversations, conversation_members, messages,
              site_settings>>

(* POST /admin/users/<user_id>/action with action = delete, suspend,        *)
(* unsuspend or make_mod                                                    *)
user_action(u, user_id, action) ==
    IF ~LoggedIn(u) THEN
        /\ Respond("user_action", 302, "")
        /\ UNCHANGED dbTables
    ELSE IF ~users[u].is_admin THEN
        /\ Respond("user_action", 403, "")
        /\ UNCHANGED dbTables
    ELSE IF user_id \notin DOMAIN users THEN
        /\ Respond("user_action", 404, "")
        /\ UNCHANGED dbTables
    ELSE IF action = "delete" THEN
        IF user_id = u THEN
            \* the audit_log row names the deleted admin: the INSERT breaks
            \* audit_log.admin_id REFERENCES users(id) and nothing commits
            /\ Respond("user_action", 500, "")
            /\ UNCHANGED dbTables
        ELSE
            /\ delete_user_cascade(user_id)
            /\ Respond("user_action", 302, "Deleted")
    ELSE
        /\ users' = [users EXCEPT
                        ![user_id].is_suspended =
                            IF action = "suspend" THEN TRUE
                            ELSE IF action = "unsuspend" THEN FALSE ELSE @,
                        ![user_id].is_moderator =
                            IF action = "make_mod" THEN ~@ ELSE @]
        /\ Respond("user_action", 302, action)
        /\ UNCHANGED <<posts, reactVars, socialVars, notifications, noteVars,
                       tagVars, pollVars, msgVars, site_settings>>

UserAction(u, user_id, action) ==
    /\ user_action(u, user_id, action)
    /\ UNCHANGED <<inflight, twins, seq, now>>

-----------------------------------------------------------------------------
(* Likes, replies and reposts: app/routes/posts.py, app/routes/api.py       *)

(* SELECT * FROM posts WHERE id = ? AND is_deleted = 0 *)
live_post(post_id) == post_id \in DOMAIN posts /\ ~posts[post_id].is_deleted

(* the likes rows of every post *)
like_count_all(rows, post_id) == Cardinality(rows)

(* the number of likes rows of post_id in the table `rows` *)
like_count(rows, post_id) == Cardinality({l \in rows : l[2] = post_id})

(* the test before the like, reply and repost notification: the owner of   *)
(* the post is someone else than the actor                                  *)
notifies_owner_always(owner, u) == TRUE

(* post['user_id'] != g.user['id'] *)
notifies_owner(owner, u) == owner # u

(* POST /post/<post_id>/like; accept_json: the Accept header is             *)
(* application/json                                                         *)
like_post(u, post_id, accept_json) ==
    IF ~LoggedIn(u) THEN
        /\ IF accept_json
           THEN RespondJson("like_post", 401, [error |-> "Login required"])
           ELSE Respond("like_post", 302, "")
        /\ UNCHANGED <<likes, notifications, seq>>
    ELSE IF ~live_post(post_id) THEN
        /\ Respond("like_post", 404, "")
        /\ UNCHANGED <<likes, notifications, seq>>
    ELSE
        /\ IF <<u, post_id>> \in likes THEN
               /\ likes' = likes \ {<<u, post_id>>}
               /\ UNCHANGED <<notifications, seq>>
           ELSE
               /\ likes' = likes \cup {<<u, post_id>>}
               /\ IF notifies_owner(posts[post_id].user_id, u) THEN
                      /\ seq.notifications < MaxNotifs
                      /\ notifications' =
                             Put(notifications, seq.notifications + 1,
                                 NotificationRow(posts[post_id].user_id, u, "like", post_id))
                      /\ seq' = [seq EXCEPT !.notifications = @ + 1]
                  ELSE UNCHANGED <<notifications, seq>>
        /\ IF accept_json
           THEN RespondJson("like_post", 200,
                            [liked |-> <<u, post_id>> \in likes',
                             count |-> like_count(likes', post_id)])
           ELSE Respond("like_post", 302, "")

LikePost(u, post_id, accept_json) ==
    /\ like_post(u, post_id, accept_json)
    /\ UNCHANGED <<msgVars, site_settings, users, tagVars, pollVars, inflight, twins,
                 posts, bookmarks, socialVars, noteVars, now>>

(* POST /api/v1/posts/<post_id>/like; limited: the rate limiter has counted *)
(* 60 requests of this address within the last minute                       *)
api_like(u, post_id, limited) ==
    IF limited THEN
        /\ RespondJson("api_like", 429, [error |-> "Rate limit exceeded"])
        /\ UNCHANGED likes
    ELSE IF ~LoggedIn(u) THEN
        /\ RespondJson("api_like", 401, [error |-> "Authentication required"])
        /\ UNCHANGED likes
    ELSE IF <<u, post_id>> \in likes THEN
        /\ likes' = likes \ {<<u, post_id>>}
        /\ RespondJson("api_like", 200,
                       [liked |-> FALSE, count |-> like_count(likes', post_id)])
    ELSE IF post_id \notin DOMAIN posts THEN
        \* likes.post_id REFERENCES posts(id): the INSERT raises IntegrityError
        /\ Respond("api_like", 500, "")
        /\ UNCHANGED likes
    ELSE
        /\ likes' = likes \cup {<<u, post_id>>}
        /\ RespondJson("api_like", 200,
                       [liked |-> TRUE, count |-> like_count(likes', post_id)])

ApiLike(u, post_id, limited) ==
    /\ api_like(u, post_id, limited)
    /\ UNCHANGED <<msgVars, site_settings, users, tagVars, pollVars, inflight, twins,
                 posts, bookmarks, socialVars, notifications, noteVars, seq, now>>

(* POST /post/<post_id>/reply without media.  last_insert_rowid() is read   *)
(* after the reply notification is inserted, so reply_id is the id of that  *)
(* notification when there is one and the id of the reply otherwise.  The   *)
(* reply and its notification are committed before the mention loop: a      *)
(* mention row whose post_id names no post breaks the foreign key and ends  *)
(* the request with status 500.                                             *)
reply(u, post_id, content) ==
    IF ~LoggedIn(u) THEN
        /\ Respond("reply", 302, "")
        /\ UNCHANGED <<posts, notifications, seq>>
    ELSE IF ~live_post(post_id) THEN
        /\ Respond("reply", 404, "")
        /\ UNCHANGED <<posts, notifications, seq>>
    ELSE IF content = << >> THEN
        /\ Respond("reply", 302, "Reply must be 1-500 characters.")
        /\ UNCHANGED <<posts, notifications, seq>>
    ELSE
        /\ seq.posts < MaxPosts
        /\ LET new_id   == seq.posts + 1
               notified == notifies_owner(posts[post_id].user_id, u)
               committed ==
                   IF notified
                   THEN Put(notifications, seq.notifications + 1,
                            NotificationRow(posts[post_id].user_id, u, "reply", post_id))
                   ELSE notifications
               reply_id == IF notified THEN seq.notifications + 1 ELSE new_id
           IN
           /\ posts' = Put(posts, new_id, PostRow(u, content, post_id, NULL, NULL))
           /\ \E order \in Orderings(extract_mentions(content)) :
                 LET ns == notify_mentions(committed, order, u, reply_id) IN
                 /\ seq.notifications + Inserted(ns) <= MaxNotifs
                 /\ IF ns # committed /\ reply_id \notin DOMAIN posts' THEN
                        /\ notifications' = committed
                        /\ seq' = [seq EXCEPT !.posts = new_id,
                                              !.notifications = @ + Inserted(committed)]
                        /\ Respond("reply", 500, "")
                    ELSE
                        /\ notifications' = ns
                        /\ seq' = [seq EXCEPT !.posts = new_id,
                                              !.notifications = @ + Inserted(ns)]
                        /\ Respond("reply", 302, "Reply posted!")

Reply(u, post_id, content) ==
    /\ reply(u, post_id, content)
    /\ UNCHANGED <<msgVars, site_settings, users, tagVars, pollVars, inflight, twins,
                 reactVars, socialVars, noteVars, now>>

(* DELETE FROM posts WHERE id = p, with the ON DELETE clauses on posts(id) *)
delete_post_cascade(p) ==
    LET goneNotes == {n \in DOMAIN community_notes : community_notes[n].post_id = p}
        gonePolls == {k \in DOMAIN polls : polls[k].post_id = p}
    IN  /\ posts' = [q \in DOMAIN posts \ {p} |->
                        [posts[q] EXCEPT !.parent_id = NullIf(@, {p}),
                                         !.repost_id = NullIf(@, {p}),
                                         !.quote_id  = NullIf(@, {p})]]
        /\ likes' = {l \in likes : l[2] # p}
        /\ bookmarks' = {b \in bookmarks : b[2] # p}
        /\ notifications' = Drop(notifications,
                                 {n \in DOMAIN notifications : notifications[n].post_id = p})
        /\ community_notes' = Drop(community_notes, goneNotes)
        /\ community_note_ratings' =
               {r \in community_note_ratings : r.note_id \notin goneNotes}
        /\ post_hashtags' = {ph \in post_hashtags : ph[1] # p}
        /\ polls' = Drop(polls, gonePolls)
        /\ poll_votes' = Drop(poll_votes,
                              {v \in DOMAIN poll_votes : poll_votes[v].poll_id \in gonePolls})

(* POST /post/<post_id>/repost *)
repost(u, post_id) ==
    LET existing == {p \in DOMAIN posts :
                        posts[p].user_id = u /\ posts[p].repost_id = post_id}
        touched  == <<posts, reactVars, notifications, noteVars, post_hashtags,
                      pollVars, seq>>
    IN
    IF ~LoggedIn(u) THEN
        /\ Respond("repost", 302, "")
        /\ UNCHANGED touched
    ELSE IF ~live_post(post_id) THEN
        /\ Respond("repost", 404, "")
        /\ UNCHANGED touched
    ELSE IF existing # {} THEN
        /\ \E p \in existing : delete_post_cascade(p)
        /\ UNCHANGED seq
        /\ Respond("repost", 302, "Rechirp removed.")
    ELSE
        /\ seq.posts < MaxPosts
        /\ posts' = Put(posts, seq.posts + 1, PostRow(u, << >>, NULL, post_id, NULL))
        /\ IF notifies_owner(posts[post_id].user_id, u) THEN
               /\ seq.notifications < MaxNotifs
               /\ notifications' =
                      Put(notifications, seq.notifications + 1,
                          NotificationRow(posts[post_id].user_id, u, "repost", post_id))
               /\ seq' = [seq EXCEPT !.posts = @ + 1, !.notifications = @ + 1]
           ELSE
               /\ seq' = [seq EXCEPT !.posts = @ + 1]
               /\ UNCHANGED notifications
        /\ UNCHANGED <<reactVars, noteVars, post_hashtags, pollVars>>
        /\ Respond("repost", 302, "Rechirped!")

Repost(u, post_id) ==
    /\ repost(u, post_id)
    /\ UNCHANGED <<msgVars, site_settings, users, socialVars, hashtags, inflight, twins, now>>

-----------------------------------------------------------------------------
(* Requests in flight.  Every request runs on a database connection of its *)
(* own (get_db).  A SELECT outside a transaction reads the committed state; *)
(* the first INSERT, UPDATE or DELETE opens the write transaction, which    *)
(* SQLite serialises with those of the other connections and which ends at  *)
(* db.commit().  A handler that reads and then writes is therefore two      *)
(* steps: the reads, which leave a record in inflight with what they saw,   *)
(* and the write transaction, which acts on that record.                    *)

Request(op, u, target, arg, seen) ==
    [conn   |-> CHOOSE c \in 1 .. MaxConns : \A r \in inflight : r.conn # c,
     op |-> op, u |-> u, target |-> target, arg |-> arg, seen |-> seen]

(* a worker is free to take the request *)
CanAccept == Cardinality(inflight) < MaxConns

Accept(r) == inflight' = inflight \cup {r}
Finish(r) == inflight' = inflight \ {r}

-----------------------------------------------------------------------------
(* Pin toggle: app/routes/posts.py *)

(* the posts table with no post of u pinned: none of them is unpinned *)
unpin_none(tbl, u) == tbl

(* UPDATE posts SET is_pinned = 0 WHERE user_id = ? *)
unpin_all(tbl, u) ==
    [p \in DOMAIN tbl |->
        IF tbl[p].user_id = u THEN [tbl[p] EXCEPT !.is_pinned = FALSE] ELSE tbl[p]]

(* POST /post/<post_id>/pin up to the SELECT of the post *)
pin_post_select(u, post_id) ==
    IF ~LoggedIn(u) THEN
        /\ Respond("pin_post", 302, "")
        /\ UNCHANGED inflight
    ELSE IF post_id \notin DOMAIN posts \/ posts[post_id].user_id # u THEN
        /\ Respond("pin_post", 404, "")
        /\ UNCHANGED inflight
    ELSE
        /\ CanAccept
        /\ Accept(Request("pin_post", u, post_id, NULL, posts[post_id].is_pinned))
        /\ UNCHANGED resp

(* the two UPDATEs and the commit of pin_post *)
pin_post_write(r) ==
    LET cleared == unpin_all(posts, r.u) IN
    /\ posts' = IF ~r.seen /\ r.target \in DOMAIN posts
                THEN [cleared EXCEPT ![r.target].is_pinned = TRUE]
                ELSE cleared
    /\ Finish(r)
    /\ Respond("pin_post", 302, "")

PinPostSelect(u, post_id) ==
    /\ pin_post_select(u, post_id)
    /\ UNCHANGED <<dbTables, twins, seq, now>>

PinPostWrite(r) ==
    /\ r.op = "pin_post"
    /\ pin_post_write(r)
    /\ UNCHANGED <<msgVars, site_settings, users, twins, reactVars, socialVars, notifications, noteVars, tagVars,
                   pollVars, seq, now>>

-----------------------------------------------------------------------------
(* Poll vote: app/routes/posts.py *)

(* SELECT id FROM poll_votes WHERE poll_id = ? AND user_id = ? *)
votes_of(poll_id, u) ==
    {v \in DOMAIN poll_votes :
        poll_votes[v].poll_id = poll_id /\ poll_votes[v].user_id = u}

(* POST /poll/<poll_id>/vote up to the SELECT of the existing vote; option  *)
(* is the form field read with type=int, NULL when absent or not a number   *)
vote_poll_select(u, poll_id, option) ==
    IF ~LoggedIn(u) THEN
        /\ Respond("vote_poll", 302, "")
        /\ UNCHANGED inflight
    ELSE IF poll_id \notin DOMAIN polls THEN
        /\ Respond("vote_poll", 404, "")
        /\ UNCHANGED inflight
    ELSE IF option = NULL \/ option < 0 \/ option >= Len(polls[poll_id].options) THEN
        /\ Respond("vote_poll", 400, "")
        /\ UNCHANGED inflight
    ELSE IF votes_of(poll_id, u) # {} THEN
        /\ Respond("vote_poll", 302, "You already voted.")
        /\ UNCHANGED inflight
    ELSE
        /\ CanAccept
        /\ Accept(Request("vote_poll", u, poll_id, option, FALSE))
        /\ UNCHANGED resp

(* the INSERT INTO poll_votes and the commit.  UNIQUE(poll_id, user_id) and *)
(* the foreign keys are checked against the committed table: a row that     *)
(* breaks them raises sqlite3.IntegrityError, which no handler catches.     *)
vote_poll_write(r) ==
    IF \/ votes_of(r.target, r.u) # {}
       \/ r.target \notin DOMAIN polls
       \/ r.u \notin DOMAIN users
    THEN
        /\ Respond("vote_poll", 500, "")
        /\ Finish(r)
        /\ UNCHANGED <<poll_votes, seq>>
    ELSE
        /\ poll_votes' = Put(poll_votes, seq.poll_votes + 1,
                             [poll_id |-> r.target, user_id |-> r.u,
                              option_index |-> r.arg])
        /\ seq' = [seq EXCEPT !.poll_votes = @ + 1]
        /\ Finish(r)
        /\ Respond("vote_poll", 302, "Vote cast!")

VotePollSelect(u, poll_id, option) ==
    /\ vote_poll_select(u, poll_id, option)
    /\ UNCHANGED <<dbTables, twins, seq, now>>

VotePollWrite(r) ==
    /\ r.op = "vote_poll"
    /\ vote_poll_write(r)
    /\ UNCHANGED <<msgVars, site_settings, users, twins, posts, reactVars, socialVars, notifications, noteVars,
                   tagVars, polls, now>>

-----------------------------------------------------------------------------
(* Mark read: app/routes/notifications.py *)

(* POST /notifications/mark-read *)
mark_all_read(u, accept_json) ==
    IF ~LoggedIn(u) THEN
        /\ Respond("mark_all_read", 302, "")
        /\ UNCHANGED notifications
    ELSE
        /\ notifications' =
               [n \in DOMAIN notifications |->
                   IF notifications[n].user_id = u
                   THEN [notifications[n] EXCEPT !.is_read = TRUE]
                   ELSE notifications[n]]
        /\ IF accept_json
           THEN RespondJson("mark_all_read", 200, [success |-> TRUE])
           ELSE Respond("mark_all_read", 302, "")

MarkAllRead(u, accept_json) ==
    /\ mark_all_read(u, accept_json)
    /\ UNCHANGED <<msgVars, site_settings, users, posts, reactVars, socialVars, noteVars, tagVars, pollVars,
                   inflight, twins, seq, now>>

-----------------------------------------------------------------------------
(* compose, commit by commit: app/routes/posts.py.  The handler commits     *)
(* three times: after the INSERT of the post, after the hashtag loop and    *)
(* after the mention loop.  Each commit ends a transaction, so the request  *)
(* is three steps; arg is the number of commits done.                       *)

(* POST /compose up to the first db.commit() *)
compose_insert(u, content) ==
    IF ~LoggedIn(u) THEN
        /\ Respond("compose", 302, "")
        /\ UNCHANGED <<posts, seq, inflight>>
    ELSE IF content = << >> THEN
        /\ Respond("compose", 200, "Post must be 1-500 characters.")
        /\ UNCHANGED <<posts, seq, inflight>>
    ELSE
        /\ seq.posts < MaxPosts
        /\ CanAccept
        /\ posts' = Put(posts, seq.posts + 1, PostRow(u, content, NULL, NULL, NULL))
        /\ seq' = [seq EXCEPT !.posts = @ + 1]
        /\ Accept(Request("compose", u, seq.posts + 1, 1, FALSE))
        /\ UNCHANGED resp

(* the hashtag loop and the second db.commit() *)
compose_tags(r) ==
    \E tags \in Orderings(extract_hashtags(posts[r.target].content)) :
       LET t == process_hashtags([h |-> hashtags, ph |-> post_hashtags],
                                 tags, r.target)
           newTags == Cardinality(DOMAIN t.h \ DOMAIN hashtags)
       IN  /\ seq.hashtags + newTags <= MaxTags
           /\ hashtags' = t.h
           /\ post_hashtags' = t.ph
           /\ seq' = [seq EXCEPT !.hashtags = @ + newTags]
           /\ inflight' = (inflight \ {r}) \cup {[r EXCEPT !.arg = 2]}

(* the mention loop, the third db.commit() and the response *)
compose_mentions(r) ==
    \E order \in Orderings(extract_mentions(posts[r.target].content)) :
       LET ns == notify_mentions(notifications, order, r.u, r.target) IN
       /\ seq.notifications + Inserted(ns) <= MaxNotifs
       /\ notifications' = ns
       /\ seq' = [seq EXCEPT !.notifications = @ + Inserted(ns)]
       /\ Finish(r)
       /\ Respond("compose", 302, "Chirp posted!")

ComposeInsert(u, content) ==
    /\ compose_insert(u, content)
    /\ UNCHANGED <<msgVars, site_settings, users, twins, reactVars, socialVars, notifications, noteVars, tagVars,
                   pollVars, now>>

ComposeTags(r) ==
    /\ r.op = "compose" /\ r.arg = 1 /\ r.target \in DOMAIN posts
    /\ compose_tags(r)
    /\ UNCHANGED <<msgVars, site_settings, users, twins, posts, reactVars, socialVars, notifications, noteVars,
                   pollVars, now, resp>>

ComposeMentions(r) ==
    /\ r.op = "compose" /\ r.arg = 2 /\ r.target \in DOMAIN posts
    /\ compose_mentions(r)
    /\ UNCHANGED <<msgVars, site_settings, users, twins, posts, reactVars, socialVars, noteVars, tagVars,
                   pollVars, now>>

(* the request ends between two of its statements (the worker is killed,    *)
(* the connection is lost, a statement raises): what it has committed stays *)
(* and its open transaction is rolled back                                  *)
Interrupt(r) ==
    /\ Finish(r)
    /\ Respond(r.op, 500, "")
    /\ UNCHANGED <<dbTables, twins, seq, now>>

-----------------------------------------------------------------------------
(* repost, reads and write transaction apart: app/routes/posts.py *)

(* SELECT id FROM posts WHERE user_id = ? AND repost_id = ? *)
reposts_of(u, post_id) ==
    {p \in DOMAIN posts : posts[p].user_id = u /\ posts[p].repost_id = post_id}

(* POST /post/<post_id>/repost up to the SELECT of the existing repost;     *)
(* arg is the id of the row fetchone() returned                             *)
repost_select(u, post_id) ==
    IF ~LoggedIn(u) THEN
        /\ Respond("repost", 302, "")
        /\ UNCHANGED inflight
    ELSE IF ~live_post(post_id) THEN
        /\ Respond("repost", 404, "")
        /\ UNCHANGED inflight
    ELSE
        /\ CanAccept
        /\ IF reposts_of(u, post_id) # {}
           THEN \E p \in reposts_of(u, post_id) :
                   Accept(Request("repost", u, post_id, p, TRUE))
           ELSE Accept(Request("repost", u, post_id, NULL, FALSE))
        /\ UNCHANGED resp

(* the DELETE, or the INSERTs, and the commit of repost *)
repost_write(r) ==
    IF r.seen THEN
        /\ IF r.arg \in DOMAIN posts
           THEN delete_post_cascade(r.arg)
           ELSE UNCHANGED <<posts, reactVars, notifications, noteVars, post_hashtags,
                            pollVars>>
        /\ UNCHANGED seq
        /\ Finish(r)
        /\ Respond("repost", 302, "Rechirp removed.")
    ELSE IF r.u \notin DOMAIN users \/ r.target \notin DOMAIN posts THEN
        \* posts.user_id, posts.repost_id: the INSERT raises IntegrityError
        /\ Respond("repost", 500, "")
        /\ Finish(r)
        /\ UNCHANGED <<posts, reactVars, notifications, noteVars, post_hashtags,
                       pollVars, seq>>
    ELSE
        /\ seq.posts < MaxRows
        /\ posts' = Put(posts, seq.posts + 1, PostRow(r.u, << >>, NULL, r.target, NULL))
        /\ IF notifies_owner(posts[r.target].user_id, r.u) THEN
               /\ seq.notifications < MaxNotifs
               /\ notifications' =
                      Put(notifications, seq.notifications + 1,
                          NotificationRow(posts[r.target].user_id, r.u, "repost",
                                          r.target))
               /\ seq' = [seq EXCEPT !.posts = @ + 1, !.notifications = @ + 1]
           ELSE
               /\ seq' = [seq EXCEPT !.posts = @ + 1]
               /\ UNCHANGED notifications
        /\ UNCHANGED <<reactVars, noteVars, post_hashtags, pollVars>>
        /\ Finish(r)
        /\ Respond("repost", 302, "Rechirped!")

RepostSelect(u, post_id) ==
    /\ repost_select(u, post_id)
    /\ UNCHANGED <<dbTables, twins, seq, now>>

RepostWrite(r) ==
    /\ r.op = "repost"
    /\ repost_write(r)
    /\ UNCHANGED <<msgVars, site_settings, users, twins, socialVars, hashtags, now>>

-----------------------------------------------------------------------------
(* The like, bookmark, follow, block and mute toggles, reads and write      *)
(* transaction apart: app/routes/posts.py, app/routes/auth.py.  Each table  *)
(* is declared UNIQUE on its (actor, target) pair (app/database.py).        *)

(* an INSERT of the key into a table that holds it, without the constraint *)
unique_unchecked(tbl, key) == FALSE

(* UNIQUE(actor, target): the INSERT of a key the table holds raises        *)
(* sqlite3.IntegrityError                                                   *)
unique_violation(tbl, key) == key \in tbl

(* the keys stored twice after INSERT of key into tbl, after DELETE of key *)
twins_insert(name, tbl, key) ==
    IF key \in tbl THEN twins \cup {<<name, key>>} ELSE twins
twins_delete(name, key) == twins \ {<<name, key>>}

Key(r) == <<r.u, r.target>>

(* the statements of a toggle before its write transaction *)
like_post_select(u, post_id) ==
    IF ~LoggedIn(u) THEN
        Respond("like_post", 302, "") /\ UNCHANGED inflight
    ELSE IF ~live_post(post_id) THEN
        Respond("like_post", 404, "") /\ UNCHANGED inflight
    ELSE
        /\ CanAccept /\ UNCHANGED resp
        /\ Accept(Request("like_post", u, post_id, NULL, <<u, post_id>> \in likes))

bookmark_post_select(u, post_id) ==
    IF ~LoggedIn(u) THEN
        Respond("bookmark_post", 302, "") /\ UNCHANGED inflight
    ELSE
        /\ CanAccept /\ UNCHANGED resp
        /\ Accept(Request("bookmark_post", u, post_id, NULL,
                          <<u, post_id>> \in bookmarks))

follow_select(u, user_id) ==
    IF ~LoggedIn(u) THEN
        Respond("follow", 302, "") /\ UNCHANGED inflight
    ELSE IF u = user_id THEN
        Respond("follow", 400, "") /\ UNCHANGED inflight
    ELSE IF user_id \notin DOMAIN users THEN
        Respond("follow", 404, "") /\ UNCHANGED inflight
    ELSE IF blocked(u, user_id) THEN
        Respond("follow", 302, "Unable to follow this user.") /\ UNCHANGED inflight
    ELSE
        /\ CanAccept /\ UNCHANGED resp
        /\ Accept(Request("follow", u, user_id, NULL, <<u, user_id>> \in follows))

block_user_select(u, user_id) ==
    IF ~LoggedIn(u) \/ u = user_id THEN
        Respond("block_user", 400, "") /\ UNCHANGED inflight
    ELSE
        /\ CanAccept /\ UNCHANGED resp
        /\ Accept(Request("block_user", u, user_id, NULL, <<u, user_id>> \in blocks))

mute_user_select(u, user_id) ==
    IF ~LoggedIn(u) \/ u = user_id THEN
        Respond("mute_user", 400, "") /\ UNCHANGED inflight
    ELSE
        /\ CanAccept /\ UNCHANGED resp
        /\ Accept(Request("mute_user", u, user_id, NULL, <<u, user_id>> \in mutes))

ToggleSelect(op, u, target) ==
    /\ \A r \in inflight : r.op = op
    /\ CASE op = "like_post"     -> like_post_select(u, target)
         [] op = "bookmark_post" -> bookmark_post_select(u, target)
         [] op = "follow"        -> follow_select(u, target)
         [] op = "block_user"    -> block_user_select(u, target)
         [] op = "mute_user"     -> mute_user_select(u, target)
    /\ UNCHANGED <<dbTables, twins, seq, now>>

(* the write transaction of a toggle and its response *)
like_post_write(r) ==
    IF r.seen THEN
        /\ likes' = likes \ {Key(r)}
        /\ twins' = twins_delete("likes", Key(r))
        /\ Respond("like_post", 302, "")
        /\ UNCHANGED <<bookmarks, socialVars, notifications, seq>>
    ELSE IF unique_violation(likes, Key(r)) \/ r.target \notin DOMAIN posts THEN
        /\ Respond("like_post", 500, "")
        /\ UNCHANGED <<reactVars, socialVars, notifications, seq, twins>>
    ELSE
        /\ likes' = likes \cup {Key(r)}
        /\ twins' = twins_insert("likes", likes, Key(r))
        /\ IF notifies_owner(posts[r.target].user_id, r.u) THEN
               /\ seq.notifications < MaxNotifs
               /\ notifications' =
                      Put(notifications, seq.notifications + 1,
                          NotificationRow(posts[r.target].user_id, r.u, "like", r.target))
               /\ seq' = [seq EXCEPT !.notifications = @ + 1]
           ELSE UNCHANGED <<notifications, seq>>
        /\ Respond("like_post", 302, "")
        /\ UNCHANGED <<bookmarks, socialVars>>

bookmark_post_write(r) ==
    IF r.seen THEN
        /\ bookmarks' = bookmarks \ {Key(r)}
        /\ twins' = twins_delete("bookmarks", Key(r))
        /\ Respond("bookmark_post", 302, "")
        /\ UNCHANGED <<likes, socialVars, notifications, seq>>
    ELSE IF unique_violation(bookmarks, Key(r)) \/ r.target \notin DOMAIN posts THEN
        /\ Respond("bookmark_post", 500, "")
        /\ UNCHANGED <<reactVars, socialVars, notifications, seq, twins>>
    ELSE
        /\ bookmarks' = bookmarks \cup {Key(r)}
        /\ twins' = twins_insert("bookmarks", bookmarks, Key(r))
        /\ Respond("bookmark_post", 302, "")
        /\ UNCHANGED <<likes, socialVars, notifications, seq>>

follow_write(r) ==
    IF r.seen THEN
        /\ follows' = follows \ {Key(r)}
        /\ twins' = twins_delete("follows", Key(r))
        /\ Respond("follow", 302, "Unfollowed")
        /\ UNCHANGED <<reactVars, blocks, mutes, notifications, seq>>
    ELSE IF unique_violation(follows, Key(r)) \/ r.target \notin DOMAIN users THEN
        /\ Respond("follow", 500, "")
        /\ UNCHANGED <<reactVars, socialVars, notifications, seq, twins>>
    ELSE
        /\ seq.notifications < MaxNotifs
        /\ follows' = follows \cup {Key(r)}
        /\ twins' = twins_insert("follows", follows, Key(r))
        /\ notifications' = Put(notifications, seq.notifications + 1,
                                NotificationRow(r.target, r.u, "follow", NULL))
        /\ seq' = [seq EXCEPT !.notifications = @ + 1]
        /\ Respond("follow", 302, "Following")
        /\ UNCHANGED <<reactVars, blocks, mutes>>

block_user_write(r) ==
    IF r.seen THEN
        /\ blocks' = blocks \ {Key(r)}
        /\ twins' = twins_delete("blocks", Key(r))
        /\ Respond("block_user", 302, "")
        /\ UNCHANGED <<reactVars, follows, mutes, notifications, seq>>
    ELSE IF unique_violation(blocks, Key(r)) \/ r.target \notin DOMAIN users THEN
        /\ Respond("block_user", 500, "")
        /\ UNCHANGED <<reactVars, socialVars, notifications, seq, twins>>
    ELSE
        /\ blocks' = blocks \cup {Key(r)}
        /\ follows' = follows \ follows_between(r.u, r.target)
        /\ twins' = twins_insert("blocks", blocks, Key(r))
                       \ {<<"follows", k>> : k \in follows_between(r.u, r.target)}
        /\ Respond("block_user", 302, "")
        /\ UNCHANGED <<reactVars, mutes, notifications, seq>>

mute_user_write(r) ==
    IF r.seen THEN
        /\ mutes' = mutes \ {Key(r)}
        /\ twins' = twins_delete("mutes", Key(r))
        /\ Respond("mute_user", 302, "")
        /\ UNCHANGED <<reactVars, follows, blocks, notifications, seq>>
    ELSE IF unique_violation(mutes, Key(r)) \/ r.target \notin DOMAIN users THEN
        /\ Respond("mute_user", 500, "")
        /\ UNCHANGED <<reactVars, socialVars, notifications, seq, twins>>
    ELSE
        /\ mutes' = mutes \cup {Key(r)}
        /\ twins' = twins_insert("mutes", mutes, Key(r))
        /\ Respond("mute_user", 302, "")
        /\ UNCHANGED <<reactVars, follows, blocks, notifications, seq>>

ToggleWrite(r) ==
    /\ CASE r.op = "like_post"     -> like_post_write(r)
         [] r.op = "bookmark_post" -> bookmark_post_write(r)
         [] r.op = "follow"        -> follow_write(r)
         [] r.op = "block_user"    -> block_user_write(r)
         [] r.op = "mute_user"     -> mute_user_write(r)
    /\ Finish(r)
    /\ UNCHANGED <<msgVars, site_settings, users, posts, noteVars, tagVars, pollVars, now>>

-----------------------------------------------------------------------------
(* Follow, statement by statement: app/routes/auth.py.  The request record *)
(* carries arg = 1 after the block lookup and arg = NULL once the lookup   *)
(* of the follow row has filled in `seen`.                                  *)

(* POST /follow/<user_id> up to the SELECT on blocks *)
follow_check_block(u, user_id) ==
    IF ~LoggedIn(u) THEN
        Respond("follow", 302, "") /\ UNCHANGED inflight
    ELSE IF u = user_id THEN
        Respond("follow", 400, "") /\ UNCHANGED inflight
    ELSE IF user_id \notin DOMAIN users THEN
        Respond("follow", 404, "") /\ UNCHANGED inflight
    ELSE IF blocked(u, user_id) THEN
        Respond("follow", 302, "Unable to follow this user.") /\ UNCHANGED inflight
    ELSE
        /\ CanAccept /\ UNCHANGED resp
        /\ Accept(Request("follow", u, user_id, 1, FALSE))

(* SELECT id FROM follows WHERE follower_id = ? AND following_id = ? *)
follow_check_existing(r) ==
    /\ inflight' = (inflight \ {r})
                      \cup {[r EXCEPT !.arg = NULL, !.seen = Key(r) \in follows]}
    /\ UNCHANGED resp

FollowCheckBlock(u, user_id) ==
    /\ follow_check_block(u, user_id)
    /\ UNCHANGED <<dbTables, twins, seq, now>>

FollowCheckExisting(r) ==
    /\ r.op = "follow" /\ r.arg = 1
    /\ follow_check_existing(r)
    /\ UNCHANGED <<dbTables, twins, seq, now>>

(* the INSERT or DELETE on follows, the notification and the commit *)
FollowWrite(r) ==
    /\ r.op = "follow" /\ r.arg = NULL
    /\ ToggleWrite(r)

BlockUserSelect(u, user_id) ==
    /\ block_user_select(u, user_id)
    /\ UNCHANGED <<dbTables, twins, seq, now>>

BlockUserWrite(r) ==
    /\ r.op = "block_user"
    /\ ToggleWrite(r)

-----------------------------------------------------------------------------
(* Bookmark toggle as one request: app/routes/posts.py *)

(* POST /post/<post_id>/bookmark *)
bookmark_post(u, post_id, accept_json) ==
    IF ~LoggedIn(u) THEN
        /\ Respond("bookmark_post", 302, "")
        /\ UNCHANGED bookmarks
    ELSE IF <<u, post_id>> \in bookmarks THEN
        /\ bookmarks' = bookmarks \ {<<u, post_id>>}
        /\ IF accept_json
           THEN RespondJson("bookmark_post", 200, [bookmarked |-> FALSE])
           ELSE Respond("bookmark_post", 302, "")
    ELSE IF post_id \notin DOMAIN posts THEN
        \* bookmarks.post_id REFERENCES posts(id): the INSERT raises IntegrityError
        /\ Respond("bookmark_post", 500, "")
        /\ UNCHANGED bookmarks
    ELSE
        /\ bookmarks' = bookmarks \cup {<<u, post_id>>}
        /\ IF accept_json
           THEN RespondJson("bookmark_post", 200, [bookmarked |-> TRUE])
           ELSE Respond("bookmark_post", 302, "")

BookmarkPost(u, post_id, accept_json) ==
    /\ bookmark_post(u, post_id, accept_json)
    /\ UNCHANGED <<msgVars, site_settings, users, posts, likes, socialVars, notifications, noteVars, tagVars,
                   pollVars, inflight, twins, seq, now>>

-----------------------------------------------------------------------------
(* Account settings: app/routes/auth.py *)

(* POST /settings with action=privacy; is_private is whether the form      *)
(* carries the is_private field                                             *)
settings_privacy(u, is_private) ==
    IF ~LoggedIn(u) THEN
        /\ Respond("settings", 302, "")
        /\ UNCHANGED users
    ELSE
        /\ users' = [users EXCEPT ![u].is_private = is_private]
        /\ Respond("settings", 302, "Privacy settings updated!")

SettingsPrivacy(u, is_private) ==
    /\ settings_privacy(u, is_private)
    /\ UNCHANGED <<msgVars, site_settings, posts, reactVars, socialVars, notifications, noteVars, tagVars,
                   pollVars, inflight, twins, seq, now>>

(* CURRENT_TIMESTAMP moves on by a second between two requests *)
Tick ==
    /\ now < MaxNow
    /\ now' = now + 1
    /\ UNCHANGED <<dbTables, inflight, twins, seq, resp>>

-----------------------------------------------------------------------------
(* Direct messages: app/routes/messages.py *)

MessageRow(conv_id, sender, content) ==
    [conversation_id |-> conv_id, sender_id |-> sender, content |-> content]

(* SELECT user_id FROM conversation_members                                *)
(*  WHERE conversation_id = ? AND user_id != ?                              *)
other_members(conv_id, u) ==
    {m[2] : m \in {x \in conversation_members : x[1] = conv_id /\ x[2] # u}}

(* the notification loop of send_message over the other members, in the    *)
(* order the SELECT returned them                                          *)
RECURSIVE notify_members(_, _, _)
notify_members(ns, order, u) ==
    IF order = << >> THEN ns
    ELSE notify_members(
             Put(ns, seq.notifications + Cardinality(DOMAIN ns \ DOMAIN notifications) + 1,
                 NotificationRow(Head(order), u, "message", NULL)),
             Tail(order), u)

(* POST /messages/<conv_id>/send *)
send_message(u, conv_id, content) ==
    IF ~LoggedIn(u) THEN
        /\ Respond("send_message", 302, "")
        /\ UNCHANGED <<messages, notifications, seq>>
    ELSE IF <<conv_id, u>> \notin conversation_members THEN
        /\ Respond("send_message", 404, "")
        /\ UNCHANGED <<messages, notifications, seq>>
    ELSE IF content = "" THEN
        /\ Respond("send_message", 302, "")
        /\ UNCHANGED <<messages, notifications, seq>>
    ELSE
        /\ seq.messages < MaxMsgs
        /\ \E order \in Orderings(other_members(conv_id, u)) :
              LET ns == notify_members(notifications, order, u) IN
              /\ seq.notifications + Inserted(ns) <= MaxNotifs
              /\ messages' = Put(messages, seq.messages + 1, MessageRow(conv_id, u, content))
              /\ notifications' = ns
              /\ seq' = [seq EXCEPT !.messages = @ + 1,
                                    !.notifications = @ + Inserted(ns)]
        /\ Respond("send_message", 302, "")

SendMessage(u, conv_id, content) ==
    /\ send_message(u, conv_id, content)
    /\ UNCHANGED <<users, posts, reactVars, socialVars, noteVars, tagVars, pollVars,
                   conversations, conversation_members, site_settings, inflight, twins,
                   now>>

(* the one-to-one conversations both u and target are members of *)
existing_conversation(u, target) ==
    {c \in DOMAIN conversations :
        /\ ~conversations[c].is_group
        /\ <<c, u>> \in conversation_members
        /\ <<c, target>> \in conversation_members}

(* POST /messages/new *)
new_conversation(u, username, content) ==
    IF ~LoggedIn(u) THEN
        /\ Respond("new_conversation", 302, "")
        /\ UNCHANGED <<msgVars, seq>>
    ELSE IF user_by_username(username) = {} THEN
        /\ Respond("new_conversation", 200, "User not found.")
        /\ UNCHANGED <<msgVars, seq>>
    ELSE
        LET target == CHOOSE x \in user_by_username(username) : TRUE IN
        IF target = u THEN
            /\ Respond("new_conversation", 200, "You can't message yourself.")
            /\ UNCHANGED <<msgVars, seq>>
        ELSE IF existing_conversation(u, target) # {} THEN
            /\ \E existing \in existing_conversation(u, target) :
                  IF content # "" THEN
                      /\ seq.messages < MaxMsgs
                      /\ messages' = Put(messages, seq.messages + 1,
                                         MessageRow(existing, u, content))
                      /\ seq' = [seq EXCEPT !.messages = @ + 1]
                  ELSE UNCHANGED <<messages, seq>>
            /\ Respond("new_conversation", 302, "")
            /\ UNCHANGED <<conversations, conversation_members>>
        ELSE
            LET conv_id == seq.conversations + 1 IN
            /\ conversations' = Put(conversations, conv_id, [is_group |-> FALSE])
            /\ conversation_members' =
                  conversation_members \cup {<<conv_id, u>>, <<conv_id, target>>}
            /\ IF content # "" THEN
                   /\ seq.messages < MaxMsgs
                   /\ messages' = Put(messages, seq.messages + 1,
                                      MessageRow(conv_id, u, content))
                   /\ seq' = [seq EXCEPT !.conversations = conv_id, !.messages = @ + 1]
               ELSE
                   /\ seq' = [seq EXCEPT !.conversations = conv_id]
                   /\ UNCHANGED messages
            /\ Respond("new_conversation", 302, "")

NewConversation(u, username, content) ==
    /\ new_conversation(u, username, content)
    /\ UNCHANGED <<users, posts, reactVars, socialVars, notifications, noteVars, tagVars,
                   pollVars, site_settings, inflight, twins, now>>

-----------------------------------------------------------------------------
(* API timeline request: app/routes/api.py *)

(* GET /api/v1/timeline?page=&per_page=; limited: the rate limiter has     *)
(* counted 60 requests of this address within the last minute              *)
api_timeline(u, page, per_page, limited) ==
    IF limited THEN
        RespondJson("timeline", 429, [error |-> "Rate limit exceeded"])
    ELSE IF ~LoggedIn(u) THEN
        RespondJson("timeline", 401, [error |-> "Authentication required"])
    ELSE
        \E s \in timeline(u, page, per_page) :
            RespondJson("timeline", 200,
                        [posts |-> s, page |-> page,
                         per_page |-> IF per_page < PerPageCap THEN per_page
                                      ELSE PerPageCap])

ApiTimeline(u, page, per_page, limited) ==
    /\ api_timeline(u, page, per_page, limited)
    /\ UNCHANGED <<dbTables, inflight, twins, seq, now>>

-----------------------------------------------------------------------------
(* The CSRF check of before_request (app/main.py) and the API route that   *)
(* creates a post (app/routes/api.py)                                       *)

(* session['csrf_token'], and the tokens a request may submit: the         *)
(* session's, another one, none                                             *)
SessionToken == "token-a"
Tokens == {SessionToken, "token-b", ""}

(* the routes whose path starts with /api/v1/ *)
ApiRoutes == {"api_like", "create_post"}

(* the abort(403) of before_request for a POST to route op with the        *)
(* submitted token (form field csrf_token or header X-CSRF-Token)          *)
csrf_rejected(op, token) == op \notin ApiRoutes /\ token # SessionToken

(* abort(403) before the handler runs *)
Forbidden(op) ==
    /\ Respond(op, 403, "")
    /\ UNCHANGED <<dbTables, inflight, twins, seq, now>>

(* POST /api/v1/posts with a JSON body holding content *)
create_post(u, content, limited) ==
    IF limited THEN
        /\ RespondJson("create_post", 429, [error |-> "Rate limit exceeded"])
        /\ UNCHANGED <<posts, seq>>
    ELSE IF ~LoggedIn(u) THEN
        /\ RespondJson("create_post", 401, [error |-> "Authentication required"])
        /\ UNCHANGED <<posts, seq>>
    ELSE IF content = << >> THEN
        /\ RespondJson("create_post", 400, [error |-> "Content is required"])
        /\ UNCHANGED <<posts, seq>>
    ELSE
        /\ seq.posts < MaxPosts
        /\ posts' = Put(posts, seq.posts + 1, PostRow(u, content, NULL, NULL, NULL))
        /\ seq' = [seq EXCEPT !.posts = @ + 1]
        /\ RespondJson("create_post", 201, [id |-> seq.posts + 1, content |-> content])

CreatePost(u, content, limited) ==
    /\ create_post(u, content, limited)
    /\ UNCHANGED <<users, reactVars, socialVars, notifications, noteVars, tagVars,
                   pollVars, msgVars, site_settings, inflight, twins, now>>

(* POST requests as before_request and then the route handle them *)
PostFollow(u, user_id, token) ==
    IF csrf_rejected("follow", token) THEN Forbidden("follow") ELSE Follow(u, user_id)

PostCompose(u, content, token) ==
    IF csrf_rejected("compose", token) THEN Forbidden("compose") ELSE Compose(u, content)

PostApiLike(u, post_id, token) ==
    IF csrf_rejected("api_like", token) THEN Forbidden("api_like")
    ELSE ApiLike(u, post_id, FALSE)

PostCreatePost(u, content, token) ==
    IF csrf_rejected("create_post", token) THEN Forbidden("create_post")
    ELSE CreatePost(u, content, FALSE)

-----------------------------------------------------------------------------
(* Registration and the first-run setup wizard: app/routes/auth.py,        *)
(* app/routes/setup.py                                                      *)

(* str.strip() on the values the forms of the model submit *)
strip(w) ==
    CASE w = " Nest " -> "Nest"
      [] w = " root " -> "root"
      [] OTHER        -> w

(* '@' in email *)
has_at(email) == email \in {"root@example.org", "bob@example.org"}

(* the page a handler renders: the flashed errors and the wizard step *)
Render(op, errors, step) ==
    resp' = [op |-> op, code |-> 200, flash |-> "",
             body |-> [errors |-> errors, step |-> step]]

(* the INSERT INTO users breaks UNIQUE(username), which is COLLATE NOCASE *)
username_taken(username) == user_by_username(username) # {}

(* POST /register by a visitor; the form's password is valid and confirmed *)
register(u, name, email) ==
    LET username == strip(name)
        errors ==
            (IF username = "" \/ Len(username) < 3 \/ Len(username) > 30
             THEN <<"Username must be 3-30 characters.">> ELSE << >>)
            \o (IF email = "" \/ ~has_at(email)
                THEN <<"Valid email is required.">> ELSE << >>)
        taken == IF errors = << >> /\ username_taken(username)
                 THEN <<"Username or email already taken.">> ELSE << >>
    IN
    IF LoggedIn(u) THEN
        /\ Respond("register", 302, "")
        /\ UNCHANGED <<users, seq>>
    ELSE IF errors \o taken # << >> THEN
        /\ Render("register", errors \o taken, 0)
        /\ UNCHANGED <<users, seq>>
    ELSE
        /\ seq.users < MaxUsers
        /\ users' = Put(users, seq.users + 1, UserRow(username, FALSE))
        /\ seq' = [seq EXCEPT !.users = @ + 1]
        /\ Respond("register", 302, "Welcome to Chirp!")

Register(u, name, email) ==
    /\ register(u, name, email)
    /\ UNCHANGED <<posts, reactVars, socialVars, notifications, noteVars, tagVars,
                   pollVars, msgVars, site_settings, inflight, twins, now>>

(* has_admin looking for a moderator *)
has_moderator == \E x \in DOMAIN users : users[x].is_moderator

(* SELECT id FROM users WHERE is_admin = 1 *)
has_admin == \E x \in DOMAIN users : users[x].is_admin

(* GET or POST /setup; form holds the fields of both steps *)
setup(method, step, form) ==
    IF has_admin THEN
        /\ Respond("setup", 302, "Setup already complete.")
        /\ UNCHANGED <<users, site_settings, seq>>
    ELSE IF method = "POST" /\ step = "1" THEN
        LET username == strip(form.username)
            errors ==
                (IF username = "" \/ Len(username) < 3
                 THEN <<"Username must be at least 3 characters.">> ELSE << >>)
                \o (IF form.email = "" \/ ~has_at(form.email)
                    THEN <<"Valid email is required.">> ELSE << >>)
                \o (IF Len(form.password) < 8
                    THEN <<"Password must be at least 8 characters.">> ELSE << >>)
        IN
        IF errors # << >> THEN
            /\ Render("setup", errors, 1)
            /\ UNCHANGED <<users, site_settings, seq>>
        ELSE IF username_taken(username) THEN
            /\ Respond("setup", 500, "")
            /\ UNCHANGED <<users, site_settings, seq>>
        ELSE
            /\ seq.users < MaxUsers
            /\ users' = Put(users, seq.users + 1, UserRow(username, TRUE))
            /\ seq' = [seq EXCEPT !.users = @ + 1]
            /\ resp' = [op |-> "setup", code |-> 200, flash |-> "Admin account created!",
                        body |-> [errors |-> << >>, step |-> 2]]
            /\ UNCHANGED site_settings
    ELSE IF method = "POST" /\ step = "2" THEN
        /\ site_settings' = [site_settings EXCEPT
                                !.site_name = strip(form.site_name),
                                !.site_description = strip(form.site_description),
                                !.theme_color = form.theme_color]
        /\ Respond("setup", 302, "Setup complete! Welcome to your new Chirp instance!")
        /\ UNCHANGED <<users, seq>>
    ELSE
        /\ Render("setup", << >>, 1)
        /\ UNCHANGED <<users, site_settings, seq>>

Setup(method, step, form) ==
    /\ setup(method, step, form)
    /\ UNCHANGED <<posts, reactVars, socialVars, notifications, noteVars, tagVars,
                   pollVars, msgVars, inflight, twins, now>>

-----------------------------------------------------------------------------
(* The database with n registered accounts, account 1 being the admin the *)
(* setup wizard creates, after account 1 has posted nposts plain posts and *)
(* account 2 has submitted nnotes community notes on post 1.               *)

(* the rows init_db inserts into site_settings *)
DefaultSettings ==
    [site_name |-> "Chirp", site_description |-> "A modern social platform",
     registration_mode |-> "open", theme_color |-> "#6750A4"]

InitPost ==
    [user_id |-> 1, content |-> <<Word("hello")>>, parent_id |-> NULL,
     repost_id |-> NULL, quote_id |-> NULL, is_pinned |-> FALSE,
     is_deleted |-> FALSE, created_at |-> 0]

(* the options of the poll account 1 attached to post 1 *)
InitPoll == [post_id |-> 1, options |-> <<"yes", "no">>]

(* the database holding the accounts and posts given, at second `clock` *)
InitState(accounts, rows, nnotes, npolls, clock) ==
    /\ users = accounts
    /\ posts = rows
    /\ likes = {}
    /\ bookmarks = {}
    /\ follows = {}
    /\ blocks = {}
    /\ mutes = {}
    /\ notifications = << >>
    /\ community_notes = [k \in 1 .. nnotes |-> NoteRow(1, 2)]
    /\ community_note_ratings = {}
    /\ hashtags = << >>
    /\ post_hashtags = {}
    /\ polls = [k \in 1 .. npolls |-> InitPoll]
    /\ poll_votes = << >>
    /\ conversations = << >>
    /\ conversation_members = {}
    /\ messages = << >>
    /\ site_settings = DefaultSettings
    /\ inflight = {}
    /\ twins = {}
    /\ seq = [posts |-> Len(rows), notifications |-> 0, community_notes |-> nnotes,
              hashtags |-> 0, polls |-> npolls, poll_votes |-> 0,
              conversations |-> 0, messages |-> 0, users |-> Len(accounts)]
    /\ now = clock
    /\ resp = [op |-> "init", code |-> 200, flash |-> "", body |-> NoBody]

InitWith(n, nposts, nnotes, npolls) ==
    InitState(InitUsers(n), [p \in 1 .. nposts |-> InitPost], nnotes, npolls, 0)

InitDb(n, nposts, nnotes) == InitWith(n, nposts, nnotes, 0)

-----------------------------------------------------------------------------
(* Follow and block requests among three accounts *)

InitRel == InitDb(3, 0, 0)

NextRel ==
    \/ \E u \in Actors, t \in UserIds : Follow(u, t)
    \/ \E u \in Actors, t \in UserIds : BlockUser(u, t)

SpecRel == InitRel /\ [][NextRel]_vars

BlockEdge(a, b) == <<a, b>> \in blocks \/ <<b, a>> \in blocks
FollowEdge(a, b) == <<a, b>> \in follows \/ <<b, a>> \in follows

NoFollowAcrossBlock == \A a, b \in UserIds : BlockEdge(a, b) => ~FollowEdge(a, b)

FollowRejected ==
    resp.op = "follow" /\ resp.flash = "Unable to follow this user."

(* C1: in every state reached by follow and block requests, two users with  *)
(* a block row in either direction have no follow row in either direction; *)
(* and a follow request by either of them while the block row exists is    *)
(* rejected and leaves follows and notifications as they were.             *)
C1_BlockImpliesNoFollow ==
    /\ []NoFollowAcrossBlock
    /\ [][\A u \in UserIds, t \in UserIds :
            (LoggedIn(u) /\ t \in DOMAIN users /\ BlockEdge(u, t) /\ Follow(u, t))
                => /\ FollowRejected'
                   /\ UNCHANGED <<follows, notifications>>]_vars

(* C1 witness: a follow request was rejected because of a block row, and   *)
(* the block is on a user the blocker had been followed by.                *)
C1_Witness ==
    /\ FollowRejected
    /\ \E a, b \in UserIds :
          /\ <<a, b>> \in blocks
          /\ \E n \in DOMAIN notifications :
                /\ notifications[n].type = "follow"
                /\ notifications[n].user_id = a
                /\ notifications[n].actor_id = b

-----------------------------------------------------------------------------
(* Posting, and follow / block / mute requests that name the author        *)
(* account 1                                                               *)

FeedTargets == {1}
PlainContents == {<<Word("hello")>>}

InitFeed == InitDb(3, 0, 0)

NextFeed ==
    \/ \E u \in Actors, t \in FeedTargets : Follow(u, t)
    \/ \E u \in Actors, t \in FeedTargets : BlockUser(u, t)
    \/ \E u \in Actors, t \in FeedTargets : MuteUser(u, t)
    \/ \E u \in Actors, c \in PlainContents : Compose(u, c)
    \/ \E u \in Actors, p \in 1 .. MaxPosts : DeletePost(u, p)

SpecFeed == InitFeed /\ [][NextFeed]_vars

InAll(T, p)  == \A s \in T : p \in Range(s)
InSome(T, p) == \E s \in T : p \in Range(s)

HomeShowsFollowed ==
    \A A \in DOMAIN users, B \in DOMAIN users, P1 \in DOMAIN posts :
        (/\ posts[P1].user_id = A /\ ~posts[P1].is_deleted
         /\ <<B, A>> \in follows
         /\ <<B, A>> \notin mutes /\ ~BlockEdge(A, B))
            => InAll(home(B, 1), P1)

HomeHidesBlocked ==
    \A A \in DOMAIN users, C \in DOMAIN users, P1 \in DOMAIN posts :
        (/\ posts[P1].user_id = A /\ ~posts[P1].is_deleted
         /\ <<C, A>> \in blocks)
            => ~InSome(home(C, 1), P1)

ProfileHidesBlocked ==
    \A A \in DOMAIN users, C \in DOMAIN users, P1 \in DOMAIN posts :
        (/\ posts[P1].user_id = A /\ ~posts[P1].is_deleted
         /\ <<C, A>> \in blocks)
            => ~InSome(profile(users[A].username, C), P1)

(* C2: a non-deleted post P1 of A is on the home timeline of every B that  *)
(* follows A (with no mute or block between them), and is neither on the   *)
(* home timeline of a C that blocks A nor in the post list the profile     *)
(* page of A shows to C.                                                    *)
C2_FeedVisibility ==
    HomeShowsFollowed /\ HomeHidesBlocked /\ ProfileHidesBlocked

(* the posts a home timeline of V may hold *)
TimelineAllowed(V, p) ==
    /\ ~posts[p].is_deleted
    /\ (posts[p].user_id = V \/ <<V, posts[p].user_id>> \in follows)
    /\ <<V, posts[p].user_id>> \notin mutes
    /\ <<V, posts[p].user_id>> \notin blocks

WebTimelineFiltered ==
    \A V \in DOMAIN users : \A s \in home(V, 1) : \A p \in Range(s) : TimelineAllowed(V, p)

ApiTimelineFiltered ==
    \A V \in DOMAIN users : \A s \in timeline(V, 1, PerPageDefault) :
        \A p \in Range(s) : TimelineAllowed(V, p)

(* C3: through /home and through /api/v1/timeline, every returned post is  *)
(* non-deleted, written by the viewer or by a user the viewer follows, and *)
(* not written by a user the viewer mutes or blocks.                       *)
C3_TimelineFiltered == WebTimelineFiltered /\ ApiTimelineFiltered

-----------------------------------------------------------------------------
(* Rating and moderating the one community note of a four-account site *)

Ratings      == {"helpful", "not_helpful", "funny"}
NoteActions  == {"approve", "reject", "delete"}

InitNotes == InitDb(4, 1, 1)

NextNotes ==
    \/ \E u \in Actors, n \in 1 .. 2, r \in Ratings : RateCommunityNote(u, n, r)
    \/ \E u \in Actors, n \in 1 .. 2, a \in NoteActions : CommunityNoteAction(u, n, a)

SpecNotes == InitNotes /\ [][NextNotes]_vars

RatingRows(n) == {r \in community_note_ratings : r.note_id = n}
Raters(n, value) == {r.user_id : r \in {x \in RatingRows(n) : x.rating = value}}
ValidRatings == {"helpful", "not_helpful"}

(* a rate-note request of u on the existing note n that is carried out *)
Rates(u, n, r) ==
    /\ LoggedIn(u) /\ n \in DOMAIN community_notes /\ r \in ValidRatings
    /\ RateCommunityNote(u, n, r)

(* C4: when a rate-note request on a note completes, the note is approved  *)
(* if at least 3 distinct users hold a helpful rating of it, however many  *)
(* not_helpful ratings it has; and a note that was proposed and has at     *)
(* most 2 helpful ratings after the request is still proposed.             *)
C4_AutoApproval ==
    [][\A u \in UserIds, n \in 1 .. 2, r \in ValidRatings :
          Rates(u, n, r) =>
              /\ Cardinality(Raters(n, "helpful"))' >= 3
                    => community_notes'[n].status = "approved"
              /\ (community_notes[n].status = "proposed"
                    /\ Cardinality(Raters(n, "helpful"))' <= 2)
                    => community_notes'[n].status = "proposed"]_vars

(* C4 witness: a rate request has just left a note with exactly 3 helpful  *)
(* ratings and a not_helpful one, approved.                                *)
C4_Witness ==
    /\ resp.op = "rate_community_note" /\ resp.code = 302
    /\ \E n \in DOMAIN community_notes :
          /\ Cardinality(Raters(n, "helpful")) = 3
          /\ Cardinality(Raters(n, "not_helpful")) = 1
          /\ community_notes[n].status = "approved"

(* C5: once a note is approved or rejected, no rate-note request changes   *)
(* its status.                                                             *)
C5_TerminalStatus ==
    [][\A u \in UserIds, n \in 1 .. 2, r \in ValidRatings :
          (Rates(u, n, r) /\ community_notes[n].status \in {"approved", "rejected"})
              => community_notes'[n].status = community_notes[n].status]_vars

OneRatingPerUser ==
    \A r1, r2 \in community_note_ratings :
        (r1.note_id = r2.note_id /\ r1.user_id = r2.user_id) => r1 = r2

HasRated(u, n, r) == [note_id |-> n, user_id |-> u, rating |-> r] \in community_note_ratings

(* C7: a (note, user) pair has at most one rating row; a rate request with *)
(* another value replaces the stored value; a request that repeats the     *)
(* stored value leaves the rating rows and the note's counts and status    *)
(* unchanged.                                                              *)
C7_RatingUpsert ==
    /\ []OneRatingPerUser
    /\ [][\A u \in UserIds, n \in 1 .. 2, r \in ValidRatings :
            Rates(u, n, r) =>
                /\ HasRated(u, n, r)'
                /\ HasRated(u, n, r) =>
                      UNCHANGED <<community_note_ratings, community_notes>>]_vars

-----------------------------------------------------------------------------
(* Submitting and rating community notes on a three-account site whose     *)
(* admin deletes accounts                                                  *)

NoteContents == {"", "needs context"}
NoteSources  == {<< >>, <<"https://example.org/a">>}

InitNoteAdmin == InitDb(3, 1, 0)

NextNoteAdmin ==
    \/ \E u \in Actors, p \in 1 .. 2, c \in NoteContents, srcs \in NoteSources :
          AddCommunityNote(u, p, c, srcs)
    \/ \E u \in Actors, n \in 1 .. MaxNotes + 1, r \in Ratings :
          RateCommunityNote(u, n, r)
    \/ \E u \in Actors, t \in UserIds : UserAction(u, t, "delete")

SpecNoteAdmin == InitNoteAdmin /\ [][NextNoteAdmin]_vars

(* C6: each note's helpful_count + not_helpful_count is the number of users *)
(* that hold a rating row of it, and helpful_count the number of helpful   *)
(* rows.                                                                    *)
C6_CountsMatchRows ==
    \A n \in DOMAIN community_notes :
        /\ community_notes[n].helpful_count + community_notes[n].not_helpful_count
              = Cardinality({r.user_id : r \in RatingRows(n)})
        /\ community_notes[n].helpful_count
              = Cardinality({r \in RatingRows(n) : r.rating = "helpful"})

-----------------------------------------------------------------------------
(* Likes, replies and reposts among two accounts on the post of account 1 *)

ReplyContents == {<< >>, <<Word("hi"), Mention("bob")>>, <<Mention("alice")>>}

InitInteract == InitDb(2, 1, 0)

LikeTargets == {1}

NextInteract ==
    \/ \E u \in Actors, p \in LikeTargets, j \in BOOLEAN : LikePost(u, p, j)
    \/ \E u \in Actors, p \in 1 .. MaxPosts, c \in ReplyContents : Reply(u, p, c)
    \/ \E u \in Actors, p \in 1 .. MaxPosts : Repost(u, p)

SpecInteract == InitInteract /\ [][NextInteract]_vars

(* the notification rows the step inserts *)
NewNotifs == {n \in DOMAIN notifications' : n > seq.notifications}

(* the derived counts of post p *)
ReplyCount(tbl, p) ==
    Cardinality({q \in DOMAIN tbl : tbl[q].parent_id = p /\ ~tbl[q].is_deleted})
RepostCount(tbl, p) == Cardinality({q \in DOMAIN tbl : tbl[q].repost_id = p})

OwnPost(u, p) == LoggedIn(u) /\ live_post(p) /\ posts[p].user_id = u

(* the action on one's own post succeeds: the row is stored or toggled and  *)
(* the derived count moves by one                                           *)
SelfLikeDone(u, p) ==
    /\ (<<u, p>> \in likes') # (<<u, p>> \in likes)
    /\ like_count(likes', p) =
           like_count(likes, p) + (IF <<u, p>> \in likes THEN -1 ELSE 1)
SelfReplyDone(u, p, c) ==
    c # << >> =>
        /\ seq'.posts \in DOMAIN posts' \ DOMAIN posts
        /\ posts'[seq'.posts].user_id = u /\ posts'[seq'.posts].parent_id = p
        /\ ReplyCount(posts', p) = ReplyCount(posts, p) + 1
        /\ resp'.code = 302
SelfRepostDone(u, p) ==
    LET had == \E q \in DOMAIN posts : posts[q].user_id = u /\ posts[q].repost_id = p
    IN  RepostCount(posts', p) = RepostCount(posts, p) + (IF had THEN -1 ELSE 1)

(* C8 as stated: a user liking, replying to or reposting their own live     *)
(* post inserts zero notification rows, and the action itself succeeds.     *)
C8_SelfActionsSilent ==
    [][\A u \in UserIds, p \in 1 .. MaxPosts :
          OwnPost(u, p) =>
            /\ \A j \in BOOLEAN :
                  LikePost(u, p, j) => NewNotifs = {} /\ SelfLikeDone(u, p)
            /\ \A c \in ReplyContents :
                  Reply(u, p, c) => NewNotifs = {} /\ SelfReplyDone(u, p, c)
            /\ Repost(u, p) => NewNotifs = {} /\ SelfRepostDone(u, p)]_vars

(* C8 amended: a user liking or reposting their own live post inserts zero  *)
(* notification rows; a user replying to their own live post inserts no     *)
(* 'reply' notification and no notification addressed to themselves, only   *)
(* 'mention' notifications to the other users the reply names; in every     *)
(* case the action itself succeeds.                                         *)
C8_SelfActionsNotifyMentionsOnly ==
    [][\A u \in UserIds, p \in 1 .. MaxPosts :
          OwnPost(u, p) =>
            /\ \A j \in BOOLEAN :
                  LikePost(u, p, j) => NewNotifs = {} /\ SelfLikeDone(u, p)
            /\ \A c \in ReplyContents :
                  Reply(u, p, c) =>
                    /\ \A n \in NewNotifs :
                          /\ notifications'[n].type = "mention"
                          /\ notifications'[n].actor_id = u
                          /\ notifications'[n].user_id # u
                          /\ notifications'[n].user_id \in
                                 UNION {user_by_username(m) : m \in extract_mentions(c)}
                    /\ SelfReplyDone(u, p, c)
            /\ Repost(u, p) => NewNotifs = {} /\ SelfRepostDone(u, p)]_vars

(* a reply of account 1 to its own post 1 that names bob has been stored    *)
(* and bob holds the mention notification of it                             *)
C8_Witness ==
    /\ resp.op = "reply" /\ resp.flash = "Reply posted!"
    /\ \E q \in DOMAIN posts :
          /\ posts[q].parent_id \in DOMAIN posts
          /\ posts[q].user_id = posts[posts[q].parent_id].user_id
          /\ \E n \in DOMAIN notifications :
                notifications[n] = NotificationRow(2, posts[q].user_id, "mention", q)

-----------------------------------------------------------------------------
(* Like toggles of three accounts through the web route and the API route  *)

InitLike == InitDb(3, 2, 0)

(* the post ids a like request names: the two posts and an id with no row *)
LikedPosts == 1 .. 3

NextLike ==
    \/ \E u \in Actors, p \in LikedPosts, j \in BOOLEAN : LikePost(u, p, j)
    \/ \E u \in Actors, p \in LikedPosts, l \in BOOLEAN : ApiLike(u, p, l)

SpecLike == InitLike /\ [][NextLike]_vars

(* C9: a like toggle by U on a post of another user A that creates the like *)
(* row inserts exactly one notification (A, U, 'like', post), through the   *)
(* web handler and through the API handler; a toggle that removes the like  *)
(* inserts none.                                                            *)
C9_LikeNotifies ==
    [][\A u \in UserIds, p \in DOMAIN posts, b \in BOOLEAN :
          ( /\ LoggedIn(u) /\ posts[p].user_id # u
            /\ (LikePost(u, p, b) \/ ApiLike(u, p, b)) ) =>
             IF <<u, p>> \notin likes /\ <<u, p>> \in likes'
             THEN /\ Cardinality(NewNotifs) = 1
                  /\ \A n \in NewNotifs :
                        notifications'[n] =
                            NotificationRow(posts[p].user_id, u, "like", p)
             ELSE NewNotifs = {}]_vars

-----------------------------------------------------------------------------
(* Posts and replies that mention accounts, among three accounts *)

MentionContents ==
    {<<Mention("bob")>>, <<Mention("bob"), Word("and"), Mention("bob")>>,
     <<Mention("Bob"), Mention("bob")>>, <<Mention("alice"), Mention("carol")>>,
     <<Mention("nobody")>>}

InitMention == InitDb(3, 1, 0)

NextMention ==
    \/ \E u \in Actors, c \in MentionContents : Compose(u, c)
    \/ \E u \in Actors, p \in 1 .. MaxPosts, c \in MentionContents : Reply(u, p, c)
    \/ \E u \in Actors, p \in 1 .. MaxPosts : DeletePost(u, p)

SpecMention == InitMention /\ [][NextMention]_vars

(* the 'mention' notification rows the step inserts *)
NewMentions == {n \in NewNotifs : notifications'[n].type = "mention"}

(* C10: a post or a reply inserts at most one 'mention' notification per    *)
(* user its @handle tokens resolve to, also when the tokens differ only in  *)
(* letter case, and none addressed to the author.                           *)
C10_OneMentionPerUser ==
    [][\A u \in UserIds, c \in MentionContents :
          ( /\ LoggedIn(u)
            /\ (Compose(u, c) \/ \E p \in 1 .. MaxPosts : Reply(u, p, c)) ) =>
             /\ \A n, m \in NewMentions :
                   notifications'[n].user_id = notifications'[m].user_id => n = m
             /\ \A n \in NewMentions : notifications'[n].user_id # u]_vars

(* C11: every 'mention' notification a post or a reply inserts has as its   *)
(* post_id the id of the post (the reply) just stored, also when the reply  *)
(* inserted a 'reply' notification for the parent's author.                 *)
C11_MentionNamesItsPost ==
    [][\A u \in UserIds, c \in MentionContents :
          ( /\ LoggedIn(u)
            /\ (Compose(u, c) \/ \E p \in 1 .. MaxPosts : Reply(u, p, c)) ) =>
             \A n \in NewMentions :
                /\ notifications'[n].post_id = seq'.posts
                /\ seq'.posts \in DOMAIN posts' \ DOMAIN posts
                /\ posts'[seq'.posts].content = c]_vars

-----------------------------------------------------------------------------
(* Posts with hashtags, by two accounts *)

TagContents ==
    {<<Word("hello"), Hashtag("intro")>>, <<Hashtag("intro"), Hashtag("intro")>>,
     <<Hashtag("Intro"), Hashtag("intro")>>, <<Hashtag("chirp"), Hashtag("intro")>>}

InitTags == InitDb(2, 0, 0)

NextTags ==
    \/ \E u \in Actors, c \in TagContents \cup {<< >>} : Compose(u, c)
    \/ \E u \in Actors, p \in 1 .. MaxPosts : DeletePost(u, p)

SpecTags == InitTags /\ [][NextTags]_vars

(* the posts linked to hashtag h in post_hashtags *)
LinkedPosts(h) == {ph[1] : ph \in {x \in post_hashtags : x[2] = h}}

(* C12: every hashtag's post_count equals the number of posts linked to it  *)
(* in post_hashtags, so a post that names a tag once, several times or in   *)
(* different letter case raises the count by exactly one.                   *)
C12_PostCountMatchesLinks ==
    \A h \in DOMAIN hashtags : hashtags[h].post_count = Cardinality(LinkedPosts(h))

-----------------------------------------------------------------------------
(* Like toggles as an involution, checked on the requests of SpecLike *)

(* the likes table with the row (u, p) flipped *)
Flipped(rows, u, p) ==
    IF <<u, p>> \in rows THEN rows \ {<<u, p>>} ELSE rows \cup {<<u, p>>}

LikeRows(rows, p) == {l \in rows : l[2] = p}

(* a like toggle of u on p that reaches the handler body *)
Toggles(u, p) ==
    /\ LoggedIn(u) /\ live_post(p)
    /\ (\E j \in BOOLEAN : LikePost(u, p, j)) \/ ApiLike(u, p, FALSE)

(* C13: a like toggle of U on a live post P flips exactly the row (U, P),   *)
(* and the count it returns is the number of like rows of P after it; two   *)
(* such flips in a row give back the liked state and the number of like     *)
(* rows of P that held before both.                                         *)
C13_LikeToggleInvolution ==
    /\ [](\A u \in DOMAIN users, p \in DOMAIN posts :
            LET twice == Flipped(Flipped(likes, u, p), u, p) IN
            /\ (<<u, p>> \in twice) = (<<u, p>> \in likes)
            /\ Cardinality(LikeRows(twice, p)) = Cardinality(LikeRows(likes, p)))
    /\ [][\A u \in UserIds, p \in LikedPosts :
            Toggles(u, p) =>
              /\ likes' = Flipped(likes, u, p)
              /\ resp'.code \in {200, 302}
              /\ resp'.code = 200 =>
                    /\ resp'.body.liked = (<<u, p>> \in likes')
                    /\ resp'.body.count = Cardinality(LikeRows(likes', p))]_vars

(* an unlike answered in JSON while the like of another account remains,    *)
(* and a like sits on the other post                                        *)
C13_Witness ==
    /\ resp.op \in {"like_post", "api_like"} /\ resp.code = 200
    /\ resp.body = [liked |-> FALSE, count |-> 1]
    /\ \E l \in likes : l[2] = 2
    /\ \E l \in likes : l[2] = 1

-----------------------------------------------------------------------------
(* Pin toggles of two accounts on the two posts of account 1, interleaved *)

InitPin == InitDb(2, 2, 0)

NextPin ==
    \/ \E u \in Actors, p \in 1 .. 3 : PinPostSelect(u, p)
    \/ \E r \in inflight : PinPostWrite(r)
    \/ \E u \in Actors, p \in 1 .. 3 : DeletePost(u, p)

SpecPin == InitPin /\ [][NextPin]_vars

Pinned(tbl, a) == {p \in DOMAIN tbl : tbl[p].user_id = a /\ tbl[p].is_pinned}

(* C14: at most one post of an author is pinned, in every state of every    *)
(* interleaving of pin toggles; a toggle that pins Q leaves Q the only      *)
(* pinned post of its author; a toggle on a post of another user answers    *)
(* 404 and changes nothing.                                                 *)
C14_PinUniqueness ==
    /\ [](\A a \in DOMAIN users : Cardinality(Pinned(posts, a)) <= 1)
    /\ [][\A r \in inflight :
            PinPostWrite(r) =>
              Pinned(posts', r.u) = (IF r.seen THEN {} ELSE {r.target})]_vars
    /\ [][\A u \in UserIds, p \in DOMAIN posts :
            (LoggedIn(u) /\ posts[p].user_id # u /\ PinPostSelect(u, p)) =>
              resp'.code = 404 /\ UNCHANGED <<posts, inflight>>]_vars

(* post 2 is the only pinned post while a request that saw post 1 pinned is *)
(* still in flight                                                          *)
C14_Witness ==
    /\ posts[2].is_pinned /\ ~posts[1].is_pinned
    /\ \E r \in inflight : r.op = "pin_post" /\ r.target = 1 /\ r.seen

-----------------------------------------------------------------------------
(* Votes of two accounts on the poll of post 1, interleaved *)

InitVote == InitWith(2, 1, 0, 1)

VoteOptions == {NULL, 0, 1, 2}

NextVote ==
    \/ \E u \in Actors, k \in 1 .. 2, o \in VoteOptions : VotePollSelect(u, k, o)
    \/ \E r \in inflight : VotePollWrite(r)

SpecVote == InitVote /\ [][NextVote]_vars

OneVotePerUser ==
    \A v, w \in DOMAIN poll_votes :
        ( /\ poll_votes[v].poll_id = poll_votes[w].poll_id
          /\ poll_votes[v].user_id = poll_votes[w].user_id ) => v = w

(* the informational answer of a vote that changes nothing *)
AlreadyVoted == resp'.code = 302 /\ resp'.flash = "You already voted."

(* C15: a (poll, user) pair never has two vote rows, also when votes of the *)
(* same user run concurrently; a vote attempt of a user whose vote is       *)
(* already stored leaves the table as it is and is answered with the        *)
(* informational "already voted", not with an error.                        *)
C15_OneVoteSoftFailure ==
    /\ []OneVotePerUser
    /\ [][\A u \in UserIds, k \in DOMAIN polls, o \in {0, 1} :
            (LoggedIn(u) /\ votes_of(k, u) # {} /\ VotePollSelect(u, k, o)) =>
               AlreadyVoted /\ UNCHANGED poll_votes]_vars
    /\ [][\A r \in inflight :
            (votes_of(r.target, r.u) # {} /\ VotePollWrite(r)) =>
               AlreadyVoted /\ UNCHANGED poll_votes]_vars

-----------------------------------------------------------------------------
(* Notifications of two accounts under likes, reposts, deletions and reads *)

InitNotif == InitDb(2, 1, 0)

NextNotif ==
    \/ \E u \in Actors, p \in 1 .. MaxPosts : LikePost(u, p, FALSE)
    \/ \E u \in Actors, p \in 1 .. MaxPosts : Repost(u, p)
    \/ \E u \in Actors, p \in 1 .. MaxPosts : DeletePost(u, p)
    \/ \E u \in Actors, t \in DOMAIN users : Follow(u, t)
    \/ \E u \in Actors, j \in BOOLEAN : MarkAllRead(u, j)

SpecNotif == InitNotif /\ [][NextNotif]_vars

(* C16: no step removes a notification row, and the only change to an       *)
(* existing row is its read flag going from unread to read.                 *)
C16_NotificationsAppendOnly ==
    [][\A n \in DOMAIN notifications :
          /\ n \in DOMAIN notifications'
          /\ [notifications'[n] EXCEPT !.is_read = FALSE] =
                 [notifications[n] EXCEPT !.is_read = FALSE]
          /\ notifications[n].is_read => notifications'[n].is_read]_vars

-----------------------------------------------------------------------------
(* Posts with a hashtag and a mention, commit by commit, by two accounts *)

AtomicContents == {<<Word("hello")>>, <<Hashtag("intro"), Mention("bob")>>}

InitAtomic == InitDb(2, 0, 0)

NextAtomic ==
    \/ \E u \in Actors, c \in AtomicContents \cup {<< >>} : ComposeInsert(u, c)
    \/ \E r \in inflight : ComposeTags(r)
    \/ \E r \in inflight : ComposeMentions(r)
    \/ \E r \in inflight : Interrupt(r)

SpecAtomic == InitAtomic /\ [][NextAtomic]_vars

(* every effect of the creation of post p is stored *)
TagsApplied(p) ==
    \A tag \in extract_hashtags(posts[p].content) :
       \E h \in hashtag_by_tag(hashtags, tag) :
          <<p, h>> \in post_hashtags /\ hashtags[h].post_count >= 1
MentionsApplied(p) ==
    \A m \in extract_mentions(posts[p].content) :
       \A x \in user_by_username(m) \ {posts[p].user_id} :
          \E n \in DOMAIN notifications :
             /\ notifications[n].user_id = x /\ notifications[n].type = "mention"
             /\ notifications[n].post_id = p

(* C17: a create-post request is one transaction: once the request is over, *)
(* by its response or by a failure, the stored state holds either none of   *)
(* its effects or all of them (the post, its hashtag links and counts, its  *)
(* mention notifications).                                                  *)
C17_AtomicPerAction ==
    \A p \in DOMAIN posts :
       (\A r \in inflight : r.target # p) => TagsApplied(p) /\ MentionsApplied(p)

-----------------------------------------------------------------------------
(* Repost toggles of two accounts on the post of account 1, interleaved *)

InitRepost == InitDb(2, 1, 0)

NextRepost ==
    \/ \E u \in Actors, p \in 1 .. MaxRows : RepostSelect(u, p)
    \/ \E r \in inflight : RepostWrite(r)

SpecRepost == InitRepost /\ [][NextRepost]_vars

(* C18: a user has at most one repost row per original post, in every       *)
(* state, also when two repost toggles of the user on the same post run     *)
(* concurrently.                                                            *)
C18_OneRepostPerUser ==
    \A u \in DOMAIN users, o \in DOMAIN posts : Cardinality(reposts_of(u, o)) <= 1

-----------------------------------------------------------------------------
(* Duplicate toggles of account 1 on post 1 and on account 2, interleaved;  *)
(* the requests in flight at one time are toggles of one kind.              *)

PostToggles == {"like_post", "bookmark_post"}
UserToggles == {"follow", "block_user", "mute_user"}

InitToggle == InitDb(2, 1, 0)

(* the target of the toggles: post 1, account 2 *)
ToggleTarget(op) == IF op \in PostToggles THEN 1 ELSE 2

NextToggle ==
    \/ \E op \in PostToggles \cup UserToggles, u \in {Anon, 1} :
          ToggleSelect(op, u, ToggleTarget(op))
    \/ \E r \in inflight : ToggleWrite(r)

SpecToggle == InitToggle /\ [][NextToggle]_vars

(* C19: under every interleaving of duplicate like, bookmark, follow, mute  *)
(* or block toggles of one user on one target, no (actor, target) key is    *)
(* ever stored in two rows: the toggle is on (one row) or off (no row).     *)
C19_NoDuplicateRows == twins = {}

(* the second of two concurrent toggles that both saw no row was refused by *)
(* the constraint, and the row of the first is stored                       *)
C19_Witness ==
    /\ resp.code = 500 /\ resp.op \in PostToggles \cup UserToggles
    /\ inflight = {}
    /\ \/ resp.op = "like_post" /\ <<1, 1>> \in likes
       \/ resp.op = "bookmark_post" /\ <<1, 1>> \in bookmarks
       \/ resp.op = "follow" /\ <<1, 2>> \in follows
       \/ resp.op = "block_user" /\ <<1, 2>> \in blocks
       \/ resp.op = "mute_user" /\ <<1, 2>> \in mutes

-----------------------------------------------------------------------------
(* Requests of one account that name post 1, which may be deleted, or      *)
(* post 2, which has no row at first                                        *)

InitGone == InitDb(1, 1, 0)

GoneTargets == {1, 2}

NextGone ==
    \/ \E u \in Actors, p \in GoneTargets : DeletePost(u, p)
    \/ \E u \in Actors, p \in GoneTargets : LikePost(u, p, TRUE)
    \/ \E u \in Actors, p \in GoneTargets : ApiLike(u, p, FALSE)
    \/ \E u \in Actors, p \in GoneTargets : BookmarkPost(u, p, TRUE)
    \/ \E u \in Actors, p \in GoneTargets : Reply(u, p, <<Word("hi")>>)
    \/ \E u \in Actors, p \in GoneTargets : Repost(u, p)
    \/ \E u \in Actors, p \in GoneTargets :
          AddCommunityNote(u, p, "needs context", <<"https://example.org/a">>)

SpecGone == InitGone /\ [][NextGone]_vars

(* a request of u on post p through one of the entry points *)
Targets(u, p) ==
    \/ LikePost(u, p, TRUE) \/ ApiLike(u, p, FALSE) \/ BookmarkPost(u, p, TRUE)
    \/ Reply(u, p, <<Word("hi")>>) \/ Repost(u, p)
    \/ AddCommunityNote(u, p, "needs context", <<"https://example.org/a">>)

(* C20: a like, bookmark, reply, repost or note submission on a post that   *)
(* is soft-deleted or has no row is answered 404 through every entry point  *)
(* and leaves likes, bookmarks, posts, notes and notifications unchanged.   *)
C20_GonePostNotFound ==
    [][\A u \in UserIds, p \in GoneTargets :
          (LoggedIn(u) /\ ~live_post(p) /\ Targets(u, p)) =>
             /\ resp'.code = 404
             /\ UNCHANGED <<likes, bookmarks, posts, community_notes,
                            notifications>>]_vars

-----------------------------------------------------------------------------
(* Profile pages of two accounts that post, reply, pin and delete           *)

InitProfile == InitDb(2, 1, 0)

(* the post replied to *)
ProfileTargets == {1}

NextProfile ==
    \/ \E u \in Actors : Compose(u, <<Word("hello")>>)
    \/ \E u \in Actors, p \in ProfileTargets : Reply(u, p, <<Word("hi")>>)
    \/ \E u \in Actors, p \in 1 .. MaxPosts : DeletePost(u, p)
    \/ \E u \in Actors, p \in 1 .. MaxPosts : PinPostSelect(u, p)
    \/ \E r \in inflight : PinPostWrite(r)
    \/ Tick

SpecProfile == InitProfile /\ [][NextProfile]_vars

(* the post list s is ordered pinned first, then newest first *)
PinnedThenNewest(s) ==
    \A i, j \in DOMAIN s : i < j =>
        /\ posts[s[j]].is_pinned => posts[s[i]].is_pinned
        /\ posts[s[i]].is_pinned = posts[s[j]].is_pinned
              => posts[s[i]].created_at >= posts[s[j]].created_at

(* C21: the post list of the profile page of a subject holds only posts of  *)
(* the subject that are not deleted and are not replies (parent id null),   *)
(* reposts included, pinned post first and then newest first.               *)
C21_ProfileTimeline ==
    \A S \in DOMAIN users, V \in Actors :
        \A s \in profile(users[S].username, V) :
            /\ \A p \in Range(s) :
                  /\ posts[p].user_id = S
                  /\ ~posts[p].is_deleted
                  /\ posts[p].parent_id = NULL
            /\ PinnedThenNewest(s)

-----------------------------------------------------------------------------
(* Profile pages of two accounts that post, delete, follow account 1 and    *)
(* switch their account to private                                          *)

InitPrivate == InitDb(2, 1, 0)

PrivateTargets == {1}

NextPrivate ==
    \/ \E u \in Actors : Compose(u, <<Word("hello")>>)
    \/ \E u \in Actors, p \in 1 .. MaxPosts : DeletePost(u, p)
    \/ \E u \in Actors, b \in BOOLEAN : SettingsPrivacy(u, b)
    \/ \E u \in Actors, t \in PrivateTargets : Follow(u, t)

SpecPrivate == InitPrivate /\ [][NextPrivate]_vars

(* C22: for a private account S and a viewer V that is not S and does not   *)
(* follow S (the anonymous viewer included), the profile page of S resolves *)
(* and its post list is empty.                                              *)
C22_PrivateProfileEmpty ==
    \A S \in DOMAIN users, V \in Actors :
        (users[S].is_private /\ V # S /\ <<V, S>> \notin follows) =>
            /\ profile(users[S].username, V) # {}
            /\ \A s \in profile(users[S].username, V) : s = << >>

-----------------------------------------------------------------------------
(* Rate requests on the note of account 2, by its author among the raters *)

AuthorNeverRates ==
    \A n \in DOMAIN community_notes :
        \A r \in RatingRows(n) : r.user_id # community_notes[n].author_id

(* C23: a rate-note request by the author of the note is answered 403 and   *)
(* leaves the rating rows and the note's counts and status unchanged; so    *)
(* no rating row of a note carries the user id of its author.               *)
C23_AuthorCannotRate ==
    /\ []AuthorNeverRates
    /\ [][\A u \in UserIds, n \in 1 .. 2, r \in ValidRatings :
            (Rates(u, n, r) /\ community_notes[n].author_id = u)
                => /\ resp'.code = 403
                   /\ UNCHANGED <<community_note_ratings, community_notes>>]_vars

-----------------------------------------------------------------------------
(* Direct messages among three accounts *)

MessageContents == {"", "hi"}
MessageHandles  == {"bob", "Carol", "alice", "nobody"}

InitMsg == InitDb(3, 0, 0)

NextMsg ==
    \/ \E u \in Actors, c \in 1 .. 2, t \in MessageContents : SendMessage(u, c, t)
    \/ \E u \in Actors, h \in MessageHandles, t \in MessageContents :
          NewConversation(u, h, t)

SpecMsg == InitMsg /\ [][NextMsg]_vars

(* the 'message' notifications a step inserts for user o from sender s *)
NewMessageNotifs(o, s) ==
    {n \in NewNotifs :
        /\ notifications'[n].type = "message"
        /\ notifications'[n].user_id = o
        /\ notifications'[n].actor_id = s}

(* C24: a step that stores a message row (through send_message or as the    *)
(* first or attached message of new_conversation) inserts exactly one       *)
(* 'message' notification for every other member of the conversation and    *)
(* none for the sender.                                                     *)
C24_MessageNotifies ==
    [][\A m \in DOMAIN messages' \ DOMAIN messages :
          \A o \in DOMAIN users :
              Cardinality(NewMessageNotifs(o, messages'[m].sender_id)) =
                  IF /\ o # messages'[m].sender_id
                     /\ <<messages'[m].conversation_id, o>> \in conversation_members'
                  THEN 1 ELSE 0]_vars

-----------------------------------------------------------------------------
(* API timeline requests of account 1, which has written up to one post     *)
(* more than the page cap, one post a second                                *)

TimelineSizes == {0, 1, PerPageCap - 1, PerPageCap, PerPageCap + 1}
PageArgs      == {-1, 0, 1, 2}
PerPageArgs   == {-1, 0, 1, PerPageDefault, PerPageCap, PerPageCap + 1}

InitPage ==
    \E n \in TimelineSizes :
        InitState(InitUsers(1), [p \in 1 .. n |-> [InitPost EXCEPT !.created_at = p]],
                  0, 0, n)

NextPage ==
    \/ \E u \in Actors, page \in PageArgs, per_page \in PerPageArgs, l \in BOOLEAN :
          ApiTimeline(u, page, per_page, l)

SpecPage == InitPage /\ [][NextPage]_vars

(* C25: an answered API timeline request returns at most 100 posts whatever *)
(* integers page and per_page are (zero and negative included), and at most *)
(* per_page posts when 1 <= per_page <= 100.                                *)
C25_ApiPageCap ==
    (resp.op = "timeline" /\ resp.code = 200) =>
        /\ Len(resp.body.posts) <= PerPageCap
        /\ (1 <= resp.body.per_page /\ resp.body.per_page <= PerPageCap)
              => Len(resp.body.posts) <= resp.body.per_page

-----------------------------------------------------------------------------
(* Two accounts post within one second or a second apart, and account 2     *)
(* follows account 1                                                        *)

OrderTargets == {1}

InitOrder == InitDb(2, 0, 0)

NextOrder ==
    \/ \E u \in Actors : Compose(u, <<Word("hello")>>)
    \/ \E u \in Actors, t \in OrderTargets : Follow(u, t)
    \/ \E u \in Actors, p \in 1 .. MaxPosts : DeletePost(u, p)
    \/ Tick

SpecOrder == InitOrder /\ [][NextOrder]_vars

(* s is ordered newest first, posts of one second by id descending *)
NewestThenId(s) ==
    \A i, j \in DOMAIN s : i < j =>
        \/ posts[s[i]].created_at > posts[s[j]].created_at
        \/ posts[s[i]].created_at = posts[s[j]].created_at /\ s[i] > s[j]

(* C26: in every database state the home timeline of a viewer is one order, *)
(* newest post first and posts of the same second by id descending, so that *)
(* two consecutive pages of that state share no post and skip none.         *)
C26_TimelineTotalOrder ==
    \A V \in DOMAIN users :
        /\ \A s \in home(V, 1) : NewestThenId(s)
        /\ \A s \in get_feed_posts(V, 1, 1) \cup timeline(V, 1, 1) : NewestThenId(s)
        /\ \A s1 \in get_feed_posts(V, 1, 1), s2 \in get_feed_posts(V, 2, 1) :
              /\ Range(s1) \cap Range(s2) = {}
              /\ Cardinality(feed_rows(V)) <= 2 => Range(s1) \cup Range(s2) = feed_rows(V)
        /\ \A s1 \in timeline(V, 1, 1), s2 \in timeline(V, 2, 1) :
              /\ Range(s1) \cap Range(s2) = {}
              /\ Cardinality(timeline_rows(V)) <= 2 =>
                    Range(s1) \cup Range(s2) = timeline_rows(V)

-----------------------------------------------------------------------------
(* POST requests of two accounts, with and without the session's CSRF       *)
(* token, to two web routes and the two API routes that write               *)

CsrfTargets == {1}

InitCsrf == InitDb(2, 1, 0)

NextCsrf ==
    \/ \E u \in Actors, t \in CsrfTargets, k \in Tokens : PostFollow(u, t, k)
    \/ \E u \in Actors, k \in Tokens : PostCompose(u, <<Word("hello")>>, k)
    \/ \E u \in Actors, p \in CsrfTargets, k \in Tokens : PostApiLike(u, p, k)
    \/ \E u \in Actors, k \in Tokens : PostCreatePost(u, <<Word("hello")>>, k)

SpecCsrf == InitCsrf /\ [][NextCsrf]_vars

(* a POST of u with the submitted token k to one of the four routes *)
Posted(u, k) ==
    \/ \E t \in CsrfTargets : PostFollow(u, t, k) \/ PostApiLike(u, t, k)
    \/ PostCompose(u, <<Word("hello")>>, k)
    \/ PostCreatePost(u, <<Word("hello")>>, k)

(* C27: a POST whose submitted CSRF token differs from the session's token  *)
(* is answered 403 and changes no table, on every route that writes, the    *)
(* session-authenticated /api/v1/ POST routes included.                     *)
C27_CsrfRejected ==
    [][\A u \in Actors, k \in Tokens \ {SessionToken} :
          Posted(u, k) => resp'.code = 403 /\ UNCHANGED dbTables]_vars

-----------------------------------------------------------------------------
(* A fresh installation: visitors register and walk through /setup *)

SetupMethods == {"GET", "POST"}
SetupSteps   == {"1", "2", "3"}
SetupNames   == {"ab", "root", " root ", "bob"}
SetupEmails  == {"", "root@example.org"}
SetupForms ==
    [username : SetupNames, email : SetupEmails, password : {"short", "long enough"},
     site_name : {" Nest "}, site_description : {"A nest"}, theme_color : {"#000000"}]

InitSetup == InitState(<< >>, << >>, 0, 0, 0)

NextSetup ==
    \/ \E u \in Actors, h \in SetupNames, e \in SetupEmails : Register(u, h, e)
    \/ \E m \in SetupMethods, st \in SetupSteps, f \in SetupForms : Setup(m, st, f)
    \/ \E u \in Actors, t \in UserIds : UserAction(u, t, "delete")

SpecSetup == InitSetup /\ [][NextSetup]_vars

Admins == {x \in DOMAIN users : users[x].is_admin}

C30_StepTwoProcessed ==
    [][\A f \in SetupForms :
          (has_admin /\ Setup("POST", "2", f)) =>
              /\ site_settings'.site_name = f.site_name
              /\ site_settings'.site_description = f.site_description
              /\ site_settings'.theme_color = f.theme_color
              /\ resp'.flash = "Setup complete! Welcome to your new Chirp instance!"]_vars

-----------------------------------------------------------------------------
(* Follow and block requests of two accounts on each other, in flight at    *)
(* the same time                                                            *)

RaceTargets == 1 .. 2

InitRace == InitDb(2, 0, 0)

NextRace ==
    \/ \E u \in Actors, t \in RaceTargets : FollowCheckBlock(u, t)
    \/ \E r \in inflight : FollowCheckExisting(r)
    \/ \E r \in inflight : FollowWrite(r)
    \/ \E u \in Actors, t \in RaceTargets : BlockUserSelect(u, t)
    \/ \E r \in inflight : BlockUserWrite(r)

SpecRace == InitRace /\ [][NextRace]_vars

(* C29: with a follow toggle and a block toggle between A and B in flight   *)
(* at the same time, the block lookup, the follow lookup and the insert of  *)
(* follow being separate steps, no committed state holds a block row        *)
(* between A and B together with a follow row between them.                 *)
C29_NoFollowAcrossBlockRace ==
    \A a, b \in RaceTargets :
        (<<a, b>> \in blocks \/ <<b, a>> \in blocks)
            => (<<a, b>> \notin follows /\ <<b, a>> \notin follows)

====
